---- MODULE Spec2Model ----
(***************************************************************************)
(* A model of NebulaTerm AI: the multi-provider AI gateway (askAI and its  *)
(* provider adapters, services/aiService.ts) and the per-tab terminal      *)
(* session core (App session registry, Terminal connection state machine   *)
(* and event listeners).                                                   *)
(*                                                                         *)
(* Text is modelled as a sequence of atoms.  An atom is an indivisible     *)
(* piece of text: a single punctuation or white-space character, a run of  *)
(* letters (a word), a digit, or - in the diagnostics the gateway builds   *)
(* from template literals - one literal segment of the template.           *)
(***************************************************************************)
EXTENDS Integers, Sequences, FiniteSets, TLC

(***************************************************************************)
(* Atoms of reply text                                                     *)
(***************************************************************************)
Quote == "\""
\* The atom standing for a code fence (three backticks).
Fence == "FENCE"
WsAtoms == {" ", "\n"}
DigitAtoms == {"0", "1", "3"}
WordAtoms == {"markdown", "suggestedCommand", "Test", "json", "null", "true",
              "false", "This", "is", "plain", "text", "ls", "Sure", "files"}

IsWs(a) == a \in WsAtoms
IsAlpha(a) == a \in WordAtoms

(***************************************************************************)
(* JavaScript values.  Every value has the same three fields so that any   *)
(* two values can be compared: t is the type tag, s the text of a string   *)
(* or number, f the members of an object in insertion order.               *)
(***************************************************************************)
Undefined == [t |-> "undefined", s |-> <<>>, f |-> <<>>]
Null == [t |-> "null", s |-> <<>>, f |-> <<>>]
Str(text) == [t |-> "str", s |-> text, f |-> <<>>]
Num(digits) == [t |-> "num", s |-> digits, f |-> <<>>]
Bool(b) == [t |-> "bool", s |-> IF b THEN <<"true">> ELSE <<"false">>, f |-> <<>>]
Obj(members) == [t |-> "obj", s |-> <<>>, f |-> members]
Member(key, value) == [k |-> key, v |-> value]

\* obj.key: the value of the last member with that key, undefined when absent.
Get(obj, key) ==
  LET hits == {i \in DOMAIN obj.f : obj.f[i].k = key}
  IN IF obj.t # "obj" \/ hits = {} THEN Undefined
     ELSE obj.f[CHOOSE i \in hits : \A j \in hits : j <= i].v

\* JavaScript truthiness, as used by !x and x || y.
Truthy(v) ==
  CASE v.t = "undefined" -> FALSE
    [] v.t = "null" -> FALSE
    [] v.t = "str" -> v.s # <<>>
    [] v.t = "num" -> \E i \in DOMAIN v.s : v.s[i] # "0"
    [] v.t = "bool" -> v.s = <<"true">>
    [] OTHER -> TRUE

\* a || b
OrElse(a, b) == IF Truthy(a) THEN a ELSE b

(***************************************************************************)
(* String.prototype.trim                                                   *)
(***************************************************************************)
RECURSIVE TrimLeft(_)
TrimLeft(text) ==
  IF text # <<>> /\ IsWs(Head(text)) THEN TrimLeft(Tail(text)) ELSE text

RECURSIVE TrimRight(_)
TrimRight(text) ==
  IF text # <<>> /\ IsWs(text[Len(text)])
  THEN TrimRight(SubSeq(text, 1, Len(text) - 1))
  ELSE text

Trim(text) == TrimRight(TrimLeft(text))

(***************************************************************************)
(* JSON.parse over atoms: objects, string literals (no raw line break      *)
(* inside), numbers, null, true, false, with white space between tokens.   *)
(* A parse step returns [ok, v, n]: success, the value, the next position. *)
(***************************************************************************)
ParseFail == [ok |-> FALSE, v |-> Undefined, n |-> 0]
ParseOk(value, next) == [ok |-> TRUE, v |-> value, n |-> next]

RECURSIVE SkipWs(_, _)
SkipWs(text, i) ==
  IF i <= Len(text) /\ IsWs(text[i]) THEN SkipWs(text, i + 1) ELSE i

\* A string literal opening at text[i] = Quote.
ParseString(text, i) ==
  LET closes == {j \in (i + 1)..Len(text) : text[j] = Quote}
  IN IF closes = {} THEN ParseFail
     ELSE LET j == CHOOSE c \in closes : \A d \in closes : c <= d
              inner == SubSeq(text, i + 1, j - 1)
          IN IF \E m \in DOMAIN inner : inner[m] = "\n" THEN ParseFail
             ELSE ParseOk(Str(inner), j + 1)

RECURSIVE DigitsEnd(_, _)
DigitsEnd(text, i) ==
  IF i <= Len(text) /\ text[i] \in DigitAtoms THEN DigitsEnd(text, i + 1) ELSE i

\* A number opening at a digit: no leading zero on a longer number.
ParseNumber(text, i) ==
  LET e == DigitsEnd(text, i)
  IN IF e - i > 1 /\ text[i] = "0" THEN ParseFail
     ELSE ParseOk(Num(SubSeq(text, i, e - 1)), e)

RECURSIVE ParseValue(_, _)
RECURSIVE ParseMembers(_, _, _)

ParseValue(text, i0) ==
  LET i == SkipWs(text, i0)
  IN IF i > Len(text) THEN ParseFail
     ELSE CASE text[i] = "{" ->
                 LET j == SkipWs(text, i + 1)
                 IN IF j <= Len(text) /\ text[j] = "}"
                    THEN ParseOk(Obj(<<>>), j + 1)
                    ELSE ParseMembers(text, j, <<>>)
            [] text[i] = Quote -> ParseString(text, i)
            [] text[i] = "null" -> ParseOk(Null, i + 1)
            [] text[i] = "true" -> ParseOk(Bool(TRUE), i + 1)
            [] text[i] = "false" -> ParseOk(Bool(FALSE), i + 1)
            [] text[i] \in DigitAtoms -> ParseNumber(text, i)
            [] OTHER -> ParseFail

\* The members of an object from position j on; acc holds those read so far.
ParseMembers(text, j, acc) ==
  IF j > Len(text) \/ text[j] # Quote THEN ParseFail
  ELSE LET key == ParseString(text, j)
       IN IF ~key.ok THEN ParseFail
          ELSE LET c == SkipWs(text, key.n)
               IN IF c > Len(text) \/ text[c] # ":" THEN ParseFail
                  ELSE LET val == ParseValue(text, c + 1)
                       IN IF ~val.ok THEN ParseFail
                          ELSE LET e == SkipWs(text, val.n)
                                   now == Append(acc, Member(key.v.s, val.v))
                               IN IF e > Len(text) THEN ParseFail
                                  ELSE CASE text[e] = "," ->
                                              ParseMembers(text, SkipWs(text, e + 1), now)
                                         [] text[e] = "}" -> ParseOk(Obj(now), e + 1)
                                         [] OTHER -> ParseFail

\* JSON.parse(x): [ok, v]; ok = FALSE stands for the SyntaxError it throws.
\* A non-string argument is converted to text first: undefined is no JSON.
JSONParse(x) ==
  IF x.t # "str" THEN ParseFail
  ELSE LET r == ParseValue(x.s, 1)
       IN IF r.ok /\ SkipWs(x.s, r.n) > Len(x.s) THEN r ELSE ParseFail

(***************************************************************************)
(* callOllama's reply normalizer: four strategies, tried in order.         *)
(***************************************************************************)
KeyMarkdown == <<"markdown">>
KeySuggested == <<"suggestedCommand">>

\* The least element of a non-empty set of positions.
Least(S) == CHOOSE i \in S : \A j \in S : i <= j
\* The greatest element of a non-empty set of positions.
Greatest(S) == CHOOSE i \in S : \A j \in S : j <= i

\* parsed.markdown || parsed.suggestedCommand !== undefined.  Reading a
\* member of null throws inside the strategy's try block, which moves on to
\* the next strategy exactly as a failed test does.
StructureValid(parsed) ==
  /\ parsed.t # "null"
  /\ \/ Truthy(Get(parsed, KeyMarkdown))
     \/ Get(parsed, KeySuggested) # Undefined

\* { markdown: parsed.markdown || '', suggestedCommand: parsed.suggestedCommand }
Shaped(parsed) ==
  Obj(<<Member(KeyMarkdown, OrElse(Get(parsed, KeyMarkdown), Str(<<>>))),
        Member(KeySuggested, Get(parsed, KeySuggested))>>)

\* One strategy's attempt on a candidate text: [hit, value].
NoHit == [hit |-> FALSE, value |-> Undefined]
TryParse(candidate) ==
  LET r == JSONParse(Str(candidate))
  IN IF r.ok /\ StructureValid(r.v) THEN [hit |-> TRUE, value |-> Shaped(r.v)]
     ELSE NoHit

\* Strategy 1: the whole trimmed reply.
Strategy1(text) == TryParse(text)

\* Strategy 2: /```(?:json)?\s*\n?([\s\S]*?)\n?```/ - the text between the
\* first fence (and an optional json tag) and the next fence, trimmed.
Strategy2(text) ==
  LET fences == {i \in DOMAIN text : text[i] = Fence}
  IN IF Cardinality(fences) < 2 THEN NoHit
     ELSE LET open == Least(fences)
              from == IF text[open + 1] = "json" THEN open + 2 ELSE open + 1
              close == Least({j \in fences : j >= from})
          IN TryParse(Trim(SubSeq(text, from, close - 1)))

\* The positions where the literal "markdown" (with its quotes) starts.
MarkdownKeyAt(text) ==
  {k \in DOMAIN text : /\ k + 2 <= Len(text)
                       /\ text[k] = Quote
                       /\ text[k + 1] = "markdown"
                       /\ text[k + 2] = Quote}

\* Strategy 3: /\{[\s\S]*?"markdown"[\s\S]*?\}/ - from the first opening
\* brace, through the first "markdown" after it, to the first closing brace
\* after that.
Strategy3(text) ==
  LET opens == {i \in DOMAIN text : text[i] = "{"}
      spans == {i \in opens : \E k \in MarkdownKeyAt(text) :
                  k > i /\ \E l \in DOMAIN text : l > k + 2 /\ text[l] = "}"}
  IN IF spans = {} THEN NoHit
     ELSE LET i == Least(spans)
              k == Least({m \in MarkdownKeyAt(text) : m > i})
              l == Least({m \in DOMAIN text : m > k + 2 /\ text[m] = "}"})
          IN TryParse(SubSeq(text, i, l))

\* text.replace(/^.*?(?=\{|[A-Za-z])/s, ''): drop what precedes the first
\* opening brace or letter; no such position, no change.
StripLeading(text) ==
  LET starts == {i \in DOMAIN text : text[i] = "{" \/ IsAlpha(text[i])}
  IN IF starts = {} THEN text ELSE SubSeq(text, Least(starts), Len(text))

\* text.replace(/```json/g, '')
RECURSIVE DropFenceJson(_)
DropFenceJson(text) ==
  IF text = <<>> THEN <<>>
  ELSE IF Len(text) >= 2 /\ text[1] = Fence /\ text[2] = "json"
       THEN DropFenceJson(SubSeq(text, 3, Len(text)))
       ELSE <<Head(text)>> \o DropFenceJson(Tail(text))

\* text.replace(/```/g, '')
DropFence(text) == SelectSeq(text, LAMBDA a : a # Fence)

\* Mutant of Fallback: the cleaned text is returned even when it is empty.
FallbackCleanOnly(text) ==
  Obj(<<Member(KeyMarkdown, Str(Trim(DropFence(DropFenceJson(StripLeading(text))))))>>)

\* The fallback: { markdown: cleanResponse || responseText }
Fallback(text) ==
  LET clean == Trim(DropFence(DropFenceJson(StripLeading(text))))
  IN Obj(<<Member(KeyMarkdown, OrElse(Str(clean), Str(text)))>>)

\* Mutant of NormalizeReply: the brace span is tried before the fenced block.
NormalizeReplySpanFirst(text) ==
  IF Strategy1(text).hit THEN Strategy1(text).value
  ELSE IF Strategy3(text).hit THEN Strategy3(text).value
  ELSE IF Strategy2(text).hit THEN Strategy2(text).value
  ELSE Fallback(text)

\* Mutant of NormalizeReply: no strategy is tried before the fallback.
NormalizeReplyFallbackOnly(text) == Fallback(text)

\* The normalizer on the trimmed, non-empty reply.
NormalizeReply(text) ==
  IF Strategy1(text).hit THEN Strategy1(text).value
  ELSE IF Strategy2(text).hit THEN Strategy2(text).value
  ELSE IF Strategy3(text).hit THEN Strategy3(text).value
  ELSE Fallback(text)

(***************************************************************************)
(* The AI gateway: settings, backend outcomes and provider adapters.       *)
(***************************************************************************)
\* AIProviderId, and an identifier outside it (the tests' 'unknown').
ProviderIds == {"gemini", "openai", "grok", "anthropic", "ollama", "openrouter"}
UnknownIds == {"unknown"}
AllIds == ProviderIds \cup UnknownIds

\* apiKey of a provider configuration: missing, empty or set.
ApiKeys == {Undefined, Str(<<>>), Str(<<"sk-test">>)}

\* AppSettings with activeProvider p.  The providers record holds the six
\* known entries with an empty key, except that the entry of p is either
\* absent (present = FALSE) or carries the key k.
Settings(p, present, k) ==
  [activeProvider |-> p,
   providers |-> [q \in (IF present THEN ProviderIds \cup {p} ELSE ProviderIds \ {p})
                    |-> [apiKey |-> IF q = p THEN k ELSE Str(<<>>)]]]

SettingsSet == {Settings(p, present, k) : p \in AllIds, present \in BOOLEAN, k \in ApiKeys}

\* settings.providers[settings.activeProvider]: [defined, apiKey]
ProviderConfig(settings) ==
  IF settings.activeProvider \in DOMAIN settings.providers
  THEN [defined |-> TRUE, apiKey |-> settings.providers[settings.activeProvider].apiKey]
  ELSE [defined |-> FALSE, apiKey |-> Undefined]

\* Replies a backend can put in its content field.
Q == <<Quote>>
JsonKey(name) == Q \o <<name>> \o Q
ReplyObject == <<"{">> \o JsonKey("markdown") \o <<":", " ">> \o Q \o <<"Test">> \o Q
                 \o <<",", " ">> \o JsonKey("suggestedCommand") \o <<":", " ", "null", "}">>
ReplyCommand == <<"{">> \o JsonKey("markdown") \o <<":">> \o Q \o <<"Test">> \o Q
                 \o <<",">> \o JsonKey("suggestedCommand") \o <<":">> \o Q \o <<"ls">> \o Q \o <<"}">>
ReplyEmptyMarkdown == <<"{">> \o JsonKey("markdown") \o <<":">> \o Q \o Q \o <<"}">>
ReplyFenced == <<Fence, "json", "\n">> \o ReplyObject \o <<"\n", Fence>>
ReplyFencedBare == <<Fence, "\n">> \o ReplyObject \o <<"\n", Fence>>
ReplyTwoObjects == <<"{">> \o JsonKey("markdown") \o <<":">> \o Q \o <<"Other">> \o Q \o <<"}", " ">>
                   \o ReplyFenced
ReplyFenceOnly == <<Fence>>
ReplyWrapped == <<"Sure", ":", " ">> \o ReplyObject
ReplyProse == <<"This", " ", "is", " ", "plain", " ", "text">>
ReplyDigitProse == <<"3", " ", "files">>
ReplyBroken == <<"{">> \o JsonKey("markdown") \o <<":", " ">> \o Q \o <<"Test", "}">>
ReplyNull == <<"null">>
ReplyEmptyObject == <<"{", "}">>
ReplyBlank == <<" ", "\n">>

ReplyTexts == {<<>>, ReplyBlank, ReplyObject, ReplyCommand, ReplyEmptyMarkdown,
               ReplyFenced, ReplyFencedBare, ReplyTwoObjects, ReplyFenceOnly, ReplyWrapped, ReplyProse, ReplyDigitProse, ReplyBroken,
               ReplyNull, ReplyEmptyObject}

\* What the backend does with the one request of a call:
\*   network    the request itself fails with an Error carrying message
\*   http       a reply with a non-success status
\*   malformed  a success reply whose body lacks the member the adapter reads
\*   reply      a success reply; content is the member the adapter reads
NetworkMessages == {<<"Network error">>, <<>>}
HttpStatuses == {[status |-> "500", statusText |-> "Internal Server Error"],
                 [status |-> "404", statusText |-> "Not Found"]}
NoStatus == [status |-> "", statusText |-> ""]
Outcome(kind, message, http, content) ==
  [kind |-> kind, message |-> message, http |-> http, content |-> content]
Outcomes ==
  {Outcome("network", m, NoStatus, Undefined) : m \in NetworkMessages}
  \cup {Outcome("http", <<>>, h, Undefined) : h \in HttpStatuses}
  \cup {Outcome("malformed", <<>>, NoStatus, Undefined)}
  \cup {Outcome("reply", <<>>, NoStatus, c) : c \in {Undefined} \cup {Str(t) : t \in ReplyTexts}}

\* What an adapter call ends with: a returned value or a thrown Error.
Returned(value) == [threw |-> FALSE, value |-> value, message |-> <<>>]
Thrown(message) == [threw |-> TRUE, value |-> Undefined, message |-> message]

\* Messages of the errors the JavaScript runtime raises.
SyntaxErrorMessage == <<"Unexpected token">>
TypeErrorMessage == <<"Cannot read properties of undefined">>

\* return JSON.parse(content)
ParseOrThrow(content) ==
  IF JSONParse(content).ok THEN Returned(JSONParse(content).v) ELSE Thrown(SyntaxErrorMessage)

\* callGemini.  The request goes through the GoogleGenAI client, which
\* throws on a failed request or status; text is undefined on a body
\* without candidates.
callGemini(outcome) ==
  CASE outcome.kind = "network" -> Thrown(outcome.message)
    [] outcome.kind = "http" -> Thrown(<<"got status: ", outcome.http.status>>)
    [] outcome.kind = "malformed" -> Thrown(<<"Empty response">>)
    [] OTHER -> IF ~Truthy(outcome.content) THEN Thrown(<<"Empty response">>)
                ELSE ParseOrThrow(outcome.content)

\* callOpenAICompatible, for openai and grok.
callOpenAICompatible(outcome) ==
  CASE outcome.kind = "network" -> Thrown(outcome.message)
    [] outcome.kind = "http" -> Thrown(<<"API returned ", outcome.http.status>>)
    [] outcome.kind = "malformed" -> Thrown(TypeErrorMessage)
    [] OTHER -> ParseOrThrow(outcome.content)

\* content.match(/\{[\s\S]*\}/): from the first opening brace to the last
\* closing brace after it; <<>> when there is none.
BraceSpan(text) ==
  LET opens == {i \in DOMAIN text : text[i] = "{" /\ \E l \in DOMAIN text : l > i /\ text[l] = "}"}
  IN IF opens = {} THEN <<>>
     ELSE SubSeq(text, Least(opens), Greatest({l \in DOMAIN text : text[l] = "}"}))

\* callAnthropic
callAnthropic(outcome) ==
  CASE outcome.kind = "network" -> Thrown(outcome.message)
    [] outcome.kind = "http" -> Thrown(<<"Anthropic API Error: ", outcome.http.statusText>>)
    [] outcome.kind = "malformed" -> Thrown(TypeErrorMessage)
    [] OTHER ->
         IF JSONParse(outcome.content).ok THEN Returned(JSONParse(outcome.content).v)
         ELSE IF outcome.content.t # "str" THEN Thrown(TypeErrorMessage)
         ELSE IF BraceSpan(outcome.content.s) # <<>>
              THEN ParseOrThrow(Str(BraceSpan(outcome.content.s)))
              ELSE Returned(Obj(<<Member(KeyMarkdown, outcome.content)>>))

\* Mutant of EmptyResponseMessage: the generic text of another adapter.
EmptyResponseMessageGeneric == <<"Empty response">>

EmptyResponseMessage ==
  <<"Ollama returned an empty response", ". Make sure the model is downloaded and running.">>

\* Mutant of callOllama: the check for an empty reply is left out.
callOllamaNoEmptyCheck(outcome) ==
  CASE outcome.kind = "network" -> Thrown(outcome.message)
    [] outcome.kind = "http" ->
         Thrown(<<"Ollama connection failed: ", outcome.http.status, " ", outcome.http.statusText>>)
    [] OTHER -> Returned(NormalizeReply(Trim(outcome.content.s)))

\* callOllama
callOllama(outcome) ==
  CASE outcome.kind = "network" -> Thrown(outcome.message)
    [] outcome.kind = "http" ->
         Thrown(<<"Ollama connection failed: ", outcome.http.status, " ", outcome.http.statusText>>)
    [] OTHER ->
         IF ~Truthy(outcome.content) \/ Trim(outcome.content.s) = <<>>
         THEN Thrown(EmptyResponseMessage)
         ELSE Returned(NormalizeReply(Trim(outcome.content.s)))

\* callOpenRouter
callOpenRouter(outcome) ==
  CASE outcome.kind = "network" -> Thrown(outcome.message)
    [] outcome.kind = "http" -> Thrown(<<"OpenRouter API Error: ", outcome.http.status>>)
    [] outcome.kind = "malformed" -> Thrown(TypeErrorMessage)
    [] OTHER -> ParseOrThrow(outcome.content)

\* The switch on settings.activeProvider: which adapter serves the call.
HasAdapter(provider) == provider \in ProviderIds
Adapter(provider, outcome) ==
  CASE provider = "gemini" -> callGemini(outcome)
    [] provider \in {"openai", "grok"} -> callOpenAICompatible(outcome)
    [] provider = "anthropic" -> callAnthropic(outcome)
    [] provider = "ollama" -> callOllama(outcome)
    [] OTHER -> callOpenRouter(outcome)

(***************************************************************************)
(* askAI                                                                   *)
(***************************************************************************)
\* How a call of the gateway ends for its caller.
NoResult == [kind |-> "none", value |-> Undefined, message |-> <<>>]
Resolved(value) == [kind |-> "resolved", value |-> value, message |-> <<>>]
Rejected(message) == [kind |-> "rejected", value |-> Undefined, message |-> message]

\* { markdown: text }
Response(text) == Obj(<<Member(KeyMarkdown, Str(text))>>)

ConfigErrorText(provider) ==
  <<"Configuration Error", ": ", "Missing API Key", " for ", provider, ". Please check Settings.">>
UnknownProviderText == <<"Unknown provider selected.">>
\* Mutant of ErrorConnectingText: the cause is left out of the diagnostic.
ErrorConnectingTextNoCause(provider, message) == <<"Error connecting to ", provider>>

ErrorConnectingText(provider, message) ==
  <<"Error connecting to ", provider, ": ">> \o (IF message # <<>> THEN message ELSE <<"Unknown error">>)

\* Mutant of MissingCredential: only the presence of the configuration is checked.
MissingCredentialConfigOnly(settings) == ~ProviderConfig(settings).defined

\* The precondition check of askAI:
\* !providerConfig || (!providerConfig.apiKey && activeProvider !== 'ollama')
MissingCredential(settings) ==
  \/ ~ProviderConfig(settings).defined
  \/ ~Truthy(ProviderConfig(settings).apiKey) /\ settings.activeProvider # "ollama"

\* Mutant of AskAICatch: the adapter's error goes on to the caller.
AskAICatchRethrows(provider, ended) ==
  IF ended.threw THEN Rejected(ended.message) ELSE Resolved(ended.value)

\* The catch block of askAI around the adapter call.
AskAICatch(provider, ended) ==
  IF ended.threw THEN Resolved(Response(ErrorConnectingText(provider, ended.message)))
  ELSE Resolved(ended.value)

(***************************************************************************)
(* autoCorrectAI                                                           *)
(***************************************************************************)
\* The commands autoCorrectAI is given (the tests' two).
Commands == {<<"ls -la">>, <<"invalid command">>}

UnknownProviderAutoCorrectText == <<"Unknown provider.">>
UnableToAnalyzeText == <<"Unable to analyze command.">>

\* The message of the error the GoogleGenAI client raises for a missing key.
ClientKeyErrorMessage == <<"An API Key must be set">>

\* new GoogleGenAI({ apiKey }) in callGemini: whether the client may refuse
\* to be built.  The client library is outside the repository: with a key
\* it builds the client; without one it either throws or builds a client
\* whose request goes out unauthenticated.
ClientRefusals(provider, apiKey) ==
  IF provider = "gemini" /\ ~Truthy(apiKey) THEN BOOLEAN ELSE {FALSE}

\* Mutant of AutoCorrectCatch: the fallback response leaves the command out.
AutoCorrectCatchNoCommand(command, ended) ==
  IF ended.threw THEN Resolved(Response(UnableToAnalyzeText)) ELSE Resolved(ended.value)

\* The catch block of autoCorrectAI around the switch.
AutoCorrectCatch(command, ended) ==
  IF ended.threw
  THEN Resolved(Obj(<<Member(KeyMarkdown, Str(UnableToAnalyzeText)),
                      Member(KeySuggested, Str(command))>>))
  ELSE Resolved(ended.value)

VARIABLES
  aiPc,             \* the gateway call: "idle", "awaiting" its request, "done"
  aiCall,           \* the call in progress: its entry point and settings
  aiResult,         \* how the call ended for its caller
  aiOutcome,        \* what the backend did with the call's request
  aiRequests,       \* requests the call has issued to the backend
  sessions,         \* App: the open sessions, in tab order
  activeSessionId,  \* App: the active session's id, 0 for null
  nextSessionId,    \* the next fresh session id (crypto.randomUUID in App)
  mounted,          \* the sessions whose Terminal component is mounted
  status,           \* Terminal: status state
  sessionId,        \* Terminal: sessionId state, 0 for null
  isConnectingRef,  \* Terminal: isConnectingRef.current
  listening,        \* Terminal: the session id its pty listeners compare with, 0 for none
  retriggered,      \* Terminal: the connect effect has run again in the step just taken
  connectPending,   \* Terminal: a connect call is awaiting its result
  connectResult,    \* Terminal: how the awaited connect call ended for connectToServer
  connectCalls,     \* transport: pty_connect / pty_connect_local calls received
  lastEvent,        \* transport: the event pushed in the step just taken, if any
  statusRef,        \* Terminal: statusRef.current
  sessionIdRef,     \* Terminal: sessionIdRef.current, 0 for null
  cleanup,          \* Terminal: the calls of the cleanup the connect effect returned
  lastInput,        \* the user input handled in the step just taken, if any
  lastCalls,        \* transport: the calls issued in the step just taken
  lastWrites,       \* display surfaces: what the step just taken wrote to them
  lastFit,          \* display surfaces: the fit() of the step just taken, if any
  lastRejected,     \* transport: the call whose rejection the step just taken handled
  aiTab,            \* the Terminal whose AI panel awaits the gateway, 0 for none
  servers,          \* App: the saved servers, in list order
  nextServerId,     \* the next fresh server id (crypto.randomUUID in ServerList)
  isDbLocked,       \* App: isDbLocked state
  isCheckingDb,     \* App: isCheckingDb state
  store,            \* credential store: whether it has a master password, is unlocked
  password,         \* UnlockPrompt: password state
  error,            \* UnlockPrompt: error state
  isLoading,        \* UnlockPrompt: isLoading state
  unlockPending     \* credential store: the passwords of the unlock calls in flight

aiVars == <<aiPc, aiCall, aiResult, aiOutcome, aiRequests>>
termVars == <<sessions, activeSessionId, nextSessionId, mounted, status, sessionId,
              isConnectingRef, listening, retriggered, connectPending, connectResult,
              connectCalls, lastEvent, statusRef, sessionIdRef,
              cleanup, lastInput, lastCalls, lastWrites, lastFit, lastRejected,
              aiTab, servers, nextServerId,
              isDbLocked, isCheckingDb, store, password, error, isLoading,
              unlockPending>>
serverVars == <<servers, nextServerId>>
gateVars == <<isDbLocked, isCheckingDb, store, password, error, isLoading, unlockPending>>
vars == <<aiVars, termVars>>


\* command is the text autoCorrectAI was given, <<>> for the other entry point.
NoCall == [mode |-> "none", settings |-> Settings("gemini", FALSE, Undefined), command |-> <<>>]
NoOutcome == Outcome("none", <<>>, NoStatus, Undefined)

AIInit ==
  /\ aiPc = "idle"
  /\ aiCall = NoCall
  /\ aiResult = NoResult
  /\ aiOutcome = NoOutcome
  /\ aiRequests = 0

\* askAI(query, historyContext, settings) up to its first await: the
\* precondition check, then the switch, whose adapter issues the request.
AskAIStart(settings) ==
  /\ aiPc = "idle"
  /\ aiCall' = [mode |-> "ask", settings |-> settings, command |-> <<>>]
  /\ aiOutcome' = NoOutcome
  /\ IF MissingCredential(settings)
     THEN /\ aiResult' = Resolved(Response(ConfigErrorText(settings.activeProvider)))
          /\ aiRequests' = 0
          /\ aiPc' = "done"
     ELSE IF HasAdapter(settings.activeProvider)
     THEN /\ aiResult' = NoResult
          /\ aiRequests' = 1
          /\ aiPc' = "awaiting"
     ELSE /\ aiResult' = Resolved(Response(UnknownProviderText))
          /\ aiRequests' = 0
          /\ aiPc' = "done"

\* askAI called on its own: nothing of the registry or the terminals changes.
AskAI(settings) == AskAIStart(settings) /\ UNCHANGED termVars

\* The backend's outcome arrives; the adapter finishes and askAI returns.
AskAIEnd(outcome) ==
  /\ aiPc = "awaiting"
  /\ aiCall.mode = "ask"
  /\ aiOutcome' = outcome
  /\ aiResult' = AskAICatch(aiCall.settings.activeProvider,
                            Adapter(aiCall.settings.activeProvider, outcome))
  /\ aiPc' = "done"
  /\ UNCHANGED <<aiCall, aiRequests>>

AskAIReturn(outcome) == AskAIEnd(outcome) /\ UNCHANGED termVars

\* autoCorrectAI(command, settings) up to its first await.  There is no
\* precondition check: the switch runs inside the try block, the adapter
\* reads its configuration while it builds the request (a TypeError when
\* settings.providers has no entry for the provider), and then issues it.
AutoCorrectAIStart(settings, command) ==
  /\ aiPc = "idle"
  /\ aiCall' = [mode |-> "autocorrect", settings |-> settings, command |-> command]
  /\ aiOutcome' = NoOutcome
  /\ IF ~HasAdapter(settings.activeProvider)
     THEN /\ aiResult' = Resolved(Response(UnknownProviderAutoCorrectText))
          /\ aiRequests' = 0
          /\ aiPc' = "done"
     ELSE IF ~ProviderConfig(settings).defined
     THEN /\ aiResult' = AutoCorrectCatch(command, Thrown(TypeErrorMessage))
          /\ aiRequests' = 0
          /\ aiPc' = "done"
     ELSE \E refused \in ClientRefusals(settings.activeProvider,
                                        ProviderConfig(settings).apiKey) :
            IF refused
            THEN /\ aiResult' = AutoCorrectCatch(command, Thrown(ClientKeyErrorMessage))
                 /\ aiRequests' = 0
                 /\ aiPc' = "done"
            ELSE /\ aiResult' = NoResult
                 /\ aiRequests' = 1
                 /\ aiPc' = "awaiting"

\* autoCorrectAI called on its own.
AutoCorrectAI(settings, command) ==
  AutoCorrectAIStart(settings, command) /\ UNCHANGED termVars

\* The backend's outcome arrives; the adapter finishes and autoCorrectAI returns.
AutoCorrectEnd(outcome) ==
  /\ aiPc = "awaiting"
  /\ aiCall.mode = "autocorrect"
  /\ aiOutcome' = outcome
  /\ aiResult' = AutoCorrectCatch(aiCall.command,
                                  Adapter(aiCall.settings.activeProvider, outcome))
  /\ aiPc' = "done"
  /\ UNCHANGED <<aiCall, aiRequests>>

AutoCorrectReturn(outcome) == AutoCorrectEnd(outcome) /\ UNCHANGED termVars

\* The caller has taken the result; the gateway is ready for the next call.
AIResultTaken ==
  /\ aiPc = "done"
  /\ aiPc' = "idle"
  /\ aiCall' = NoCall
  /\ aiResult' = NoResult
  /\ aiOutcome' = NoOutcome
  /\ aiRequests' = 0

AITaken == AIResultTaken /\ UNCHANGED termVars

AINext ==
  \/ \E settings \in SettingsSet : AskAI(settings)
  \/ \E outcome \in Outcomes : AskAIReturn(outcome)
  \/ \E settings \in SettingsSet, command \in Commands : AutoCorrectAI(settings, command)
  \/ \E outcome \in Outcomes : AutoCorrectReturn(outcome)
  \/ AITaken

(***************************************************************************)
(* The session registry (App) and the Terminal component of each session.  *)
(***************************************************************************)
\* Sessions opened in one run of the model.
MaxOpens == 2

SessionIds == 1..MaxOpens
TransportIds == 1..MaxOpens

\* The ids of the saved servers: the two of the initial list and those
\* ServerList draws for the servers it adds.
MaxServers == 3
ServerIds == 1..MaxServers

\* A Server, as far as the registry reads it: its id and its isLocal mark.
\* NoServer stands for undefined.
SavedServer(id) == [id |-> id, isLocal |-> FALSE]
LocalServer == [id |-> 0, isLocal |-> TRUE]
NoServer == [id |-> -1, isLocal |-> FALSE]
InitialServers == <<SavedServer(1), SavedServer(2)>>

\* servers.find(s => s.id === id)
FindServer(list, id) ==
  IF \E i \in DOMAIN list : list[i].id = id
  THEN list[CHOOSE i \in DOMAIN list : list[i].id = id /\ \A j \in 1..(i - 1) : list[j].id # id]
  ELSE NoServer

\* const server = session.server || servers.find(s => s.id === session.serverId)
TargetOf(session, list) ==
  IF session.server # NoServer THEN session.server ELSE FindServer(list, session.serverId)

\* const newSessionId = crypto.randomUUID() in connectToServer: an id no
\* other Terminal draws, named after the Terminal that drew it.
NewSessionId(s) == s

\* The ids of the open sessions, and the tab position of one of them.
OpenIds == {sessions[i].id : i \in DOMAIN sessions}
IndexOf(id) == CHOOSE i \in DOMAIN sessions : sessions[i].id = id

NoEvent == [kind |-> "none", session_id |-> 0, data |-> "none"]

\* The payloads of the pty-output events.
OutputData == {"ls", "pwd"}

\* The cleanup of the connect effect is kept as the transport calls it
\* issues when it runs.  None is registered before the effect has run, and
\* none when the effect returned at one of its early returns.  A registered
\* cleanup holds the status and sessionId of the render whose effect
\* created it:
\* if (status === CONNECTED && sessionId) invoke('pty_disconnect', { sessionId })
NoCleanup == {}
Closure(st, sid) ==
  IF st = "CONNECTED" /\ sid # 0 THEN {[cmd |-> "pty_disconnect", session_id |-> sid]}
  ELSE {}

NotRetriggered == [s \in SessionIds |-> FALSE]

NoInput == [kind |-> "none", session |-> 0]
Input(kind, s) == [kind |-> kind, session |-> s]

\* invoke(cmd, {session_id ...}) and a write or writeln on a surface.
Call(cmd, session_id) == [cmd |-> cmd, session_id |-> session_id]
Written(s, lines) == [surface |-> s, lines |-> lines]

\* The cols and rows a surface can have after fit(): those of a surface not
\* laid out yet and those of a larger one.
Sizes == {[cols |-> 80, rows |-> 24], [cols |-> 120, rows |-> 40]}

\* fitAddon.fit() on a surface: it throws (the try blocks around it log the
\* error), or it returns and the surface has the cols and rows of size.
FitThrew == [cols |-> 0, rows |-> 0]
FitOutcomes == Sizes \cup {FitThrew}
Fit(s, size) == [surface |-> s, size |-> size]
NoFit == Fit(0, FitThrew)

\* invoke('pty_resize', { params: { session_id, cols, rows } })
Resize(session_id, size) ==
  [cmd |-> "pty_resize", session_id |-> session_id, cols |-> size.cols, rows |-> size.rows]

\* The calls whose promise has only a catch handler that logs.
BestEffortCmds == {"pty_write", "pty_resize", "pty_disconnect"}
NoRejection == Call("none", 0)

\* ---- The credential gate: App's startup check and UnlockPrompt ----

\* The unlock calls awaited at a time.
MaxPending == 2

\* What the user types into the prompt; useState('') is the empty text.
Passwords == {<<>>, <<"secret">>, <<"hunter2">>}
NoError == <<>>

\* The credential store behind has_master_password and is_database_unlocked.
Stores == [hasMasterPw : BOOLEAN, unlocked : BOOLEAN]

\* initDb's three calls: none of them rejects, or the named one does.
StartupRejections == {"none", "init_secure_storage", "has_master_password",
                      "is_database_unlocked"}

\* initDb: setIsDbLocked(!isUnlocked) is reached when no call rejected and
\* the store has a master password; the catch only logs.
LockedAfterInit(locked, st, rejected) ==
  IF rejected = "none" /\ st.hasMasterPw THEN ~st.unlocked ELSE locked

\* How an unlock_database call ends: it resolves, or rejects with a text.
UnlockOk == [ok |-> TRUE, err |-> <<>>]
UnlockRejected(err) == [ok |-> FALSE, err |-> err]
UnlockErrors == {<<>>, <<"Incorrect password">>}
UnlockOutcomes == {UnlockOk} \cup {UnlockRejected(err) : err \in UnlockErrors}

\* setError(String(err) || 'Invalid password')
UnlockErrorText(err) == IF err = <<>> THEN <<"Invalid password">> ELSE err

\* App renders the prompt while isDbLocked, the loading screen while
\* isCheckingDb, and the server list, tab bar and terminals otherwise.
MainView == ~isDbLocked /\ ~isCheckingDb

\* App after construction: useState(false), useState(true); UnlockPrompt's
\* useState('') , useState(''), useState(false).
GateInit ==
  /\ isDbLocked = FALSE
  /\ isCheckingDb = TRUE
  /\ store \in Stores
  /\ password = <<>>
  /\ error = NoError
  /\ isLoading = FALSE
  /\ unlockPending = <<>>

\* App once the startup check of a store without master password has ended.
GateChecked ==
  /\ isDbLocked = FALSE
  /\ isCheckingDb = FALSE
  /\ store = [hasMasterPw |-> FALSE, unlocked |-> FALSE]
  /\ password = <<>>
  /\ error = NoError
  /\ isLoading = FALSE
  /\ unlockPending = <<>>

\* Nothing observable besides the state change of the step.
Quiet ==
  /\ lastEvent' = NoEvent
  /\ lastInput' = NoInput
  /\ retriggered' = NotRetriggered
  /\ lastCalls' = {}
  /\ lastFit' = NoFit
  /\ lastRejected' = NoRejection
  /\ lastWrites' = {}

TermInit ==
  /\ sessions = <<>>
  /\ activeSessionId = 0
  /\ nextSessionId = 1
  /\ mounted = {}
  /\ status = [s \in SessionIds |-> "DISCONNECTED"]
  /\ sessionId = [s \in SessionIds |-> 0]
  /\ isConnectingRef = [s \in SessionIds |-> FALSE]
  /\ listening = [s \in SessionIds |-> 0]
  /\ retriggered = [s \in SessionIds |-> FALSE]
  /\ connectPending = [s \in SessionIds |-> FALSE]
  /\ connectResult = [s \in SessionIds |-> "none"]
  /\ connectCalls = [s \in SessionIds |-> 0]
  /\ lastEvent = NoEvent
  /\ statusRef = [s \in SessionIds |-> "DISCONNECTED"]
  /\ sessionIdRef = [s \in SessionIds |-> 0]
  /\ cleanup = [s \in SessionIds |-> NoCleanup]
  /\ lastInput = NoInput
  /\ lastCalls = {}
  /\ lastWrites = {}
  /\ lastFit = NoFit
  /\ lastRejected = NoRejection
  /\ aiTab = 0
  /\ servers = InitialServers
  /\ nextServerId = Len(InitialServers) + 1

\* App.handleSelectServer: a new session is appended and made active, and
\* its Terminal is rendered (status DISCONNECTED, no session id, latch clear).
handleSelectServer(server) ==
  /\ MainView
  /\ nextSessionId <= MaxOpens
  /\ sessions' = Append(sessions, [id |-> nextSessionId, serverId |-> server.id,
                                    server |-> IF server.isLocal THEN server ELSE NoServer])
  /\ activeSessionId' = nextSessionId
  /\ nextSessionId' = nextSessionId + 1
  /\ mounted' = mounted \cup {nextSessionId}
  /\ Quiet
  /\ UNCHANGED <<status, sessionId, isConnectingRef, listening, connectPending, connectResult, connectCalls,
                 statusRef, sessionIdRef, cleanup>>
  /\ UNCHANGED aiVars
  /\ UNCHANGED serverVars
  /\ UNCHANGED gateVars
  /\ UNCHANGED aiTab

\* TabBar onSelectSession = setActiveSessionId, offered for the open tabs.
setActiveSessionId(id) ==
  /\ id \in OpenIds
  /\ activeSessionId' = id
  /\ Quiet
  /\ UNCHANGED <<sessions, nextSessionId, mounted, status, sessionId, isConnectingRef,
                 listening, connectPending, connectResult, connectCalls,
                 statusRef, sessionIdRef, cleanup>>
  /\ UNCHANGED aiVars
  /\ UNCHANGED serverVars
  /\ UNCHANGED gateVars
  /\ UNCHANGED aiTab

\* Mutant of ActiveAfterClose: closing the active session empties the pointer.
ActiveAfterCloseCleared(id, idx, newSessions) ==
  IF activeSessionId # id THEN activeSessionId ELSE 0

\* Mutant of ActiveAfterClose: every close empties the pointer.
ActiveAfterCloseNull(id, idx, newSessions) == 0

\* Mutant of ActiveAfterClose: the pointer is left as it was.
ActiveAfterCloseKept(id, idx, newSessions) == activeSessionId

\* The active pointer after the session at tab position idx was removed.
ActiveAfterClose(id, idx, newSessions) ==
  IF activeSessionId # id THEN activeSessionId
  ELSE IF Len(newSessions) > 0
       THEN newSessions[IF idx - 1 > 1 THEN idx - 1 ELSE 1].id
       ELSE 0

\* The calls the cleanup of the connect effect of a Terminal issues.
CleanupCalls(s) == cleanup[s]

\* Mutant of Unmounted: the Terminals are not told apart by their keys.
UnmountedAll(id) == mounted

\* The Terminals the render after a close unmounts: each Terminal is
\* rendered under key={session.id}, so only the closed session's is.
Unmounted(id) == {id} \cap mounted

\* App.handleCloseSession, and the unmount of the session's Terminal that the
\* next render brings.  React runs a mount's effects before it renders
\* again, so the connect effect has run by then.  The unmount runs the
\* cleanup of the connect effect and disposes the surface; the state and
\* the refs of the component are discarded.  The cleanup of the listener
\* effect only starts the removal of the listeners (Unlisten), and a connect
\* call still awaited stays awaited (ConnectReturn).
handleCloseSession(id) ==
  /\ id \in mounted => isConnectingRef[id]
  /\ IF id \notin OpenIds
     THEN /\ UNCHANGED <<sessions, activeSessionId, mounted, status, statusRef,
                         sessionIdRef, isConnectingRef, cleanup,
                         connectResult>>
          /\ lastCalls' = {}
     ELSE LET idx == IndexOf(id)
              newSessions == SelectSeq(sessions, LAMBDA x : x.id # id)
              gone == Unmounted(id)
          IN /\ sessions' = newSessions
             /\ activeSessionId' = ActiveAfterClose(id, idx, newSessions)
             /\ mounted' = mounted \ gone
             /\ lastCalls' = UNION {CleanupCalls(s) : s \in gone}
             /\ status' = [s \in SessionIds |->
                             IF s \in gone THEN "DISCONNECTED" ELSE status[s]]
             /\ statusRef' = [s \in SessionIds |->
                                IF s \in gone THEN "DISCONNECTED" ELSE statusRef[s]]
             /\ sessionIdRef' = [s \in SessionIds |->
                                   IF s \in gone THEN 0 ELSE sessionIdRef[s]]
             /\ isConnectingRef' = [s \in SessionIds |->
                                      IF s \in gone THEN FALSE ELSE isConnectingRef[s]]
             /\ connectResult' = [s \in SessionIds |->
                                    IF s \in gone THEN "none" ELSE connectResult[s]]
             /\ cleanup' = [s \in SessionIds |->
                              IF s \in gone THEN NoCleanup ELSE cleanup[s]]
  /\ lastEvent' = NoEvent
  /\ lastInput' = NoInput
  /\ retriggered' = NotRetriggered
  /\ lastFit' = NoFit
  /\ lastRejected' = NoRejection
  /\ lastWrites' = {}
  /\ UNCHANGED <<nextSessionId, sessionId, listening, connectPending, connectCalls>>
  /\ UNCHANGED aiVars
  /\ UNCHANGED serverVars
  /\ UNCHANGED gateVars
  /\ UNCHANGED aiTab

\* App.handleAddServer, with the server ServerList.handleSave builds under a
\* fresh id.
handleAddServer ==
  /\ MainView
  /\ nextServerId <= MaxServers
  /\ servers' = Append(servers, SavedServer(nextServerId))
  /\ nextServerId' = nextServerId + 1
  /\ Quiet
  /\ UNCHANGED <<sessions, activeSessionId, nextSessionId, mounted, status, sessionId,
                 isConnectingRef, listening, connectPending, connectResult,
                 connectCalls, statusRef, sessionIdRef, cleanup, aiTab, gateVars>>
  /\ UNCHANGED aiVars

\* The Terminals the render over the saved servers in list leaves out: those
\* of the sessions whose server is not found (if (!server) return null).
Unrendered(list) ==
  {sessions[i].id : i \in {j \in DOMAIN sessions : TargetOf(sessions[j], list) = NoServer}}
    \cap mounted

\* App.handleDeleteServer, offered by ServerList for the servers of the list,
\* and the render it brings: the Terminal of a session whose server is no
\* longer found is unmounted as at a close, and the session stays in the
\* registry.
handleDeleteServer(id) ==
  /\ MainView
  /\ \E i \in DOMAIN servers : servers[i].id = id
  /\ LET newServers == SelectSeq(servers, LAMBDA x : x.id # id)
         gone == Unrendered(newServers)
     IN /\ \A s \in gone : isConnectingRef[s]
        /\ servers' = newServers
        /\ mounted' = mounted \ gone
        /\ lastCalls' = UNION {CleanupCalls(s) : s \in gone}
        /\ status' = [s \in SessionIds |->
                        IF s \in gone THEN "DISCONNECTED" ELSE status[s]]
        /\ statusRef' = [s \in SessionIds |->
                           IF s \in gone THEN "DISCONNECTED" ELSE statusRef[s]]
        /\ sessionIdRef' = [s \in SessionIds |->
                              IF s \in gone THEN 0 ELSE sessionIdRef[s]]
        /\ isConnectingRef' = [s \in SessionIds |->
                                 IF s \in gone THEN FALSE ELSE isConnectingRef[s]]
        /\ connectResult' = [s \in SessionIds |->
                               IF s \in gone THEN "none" ELSE connectResult[s]]
        /\ cleanup' = [s \in SessionIds |->
                         IF s \in gone THEN NoCleanup ELSE cleanup[s]]
  /\ lastEvent' = NoEvent
  /\ lastInput' = NoInput
  /\ retriggered' = NotRetriggered
  /\ lastFit' = NoFit
  /\ lastRejected' = NoRejection
  /\ lastWrites' = {}
  /\ UNCHANGED <<sessions, activeSessionId, nextSessionId, nextServerId, sessionId,
                 listening, connectPending, connectCalls, aiTab, gateVars>>
  /\ UNCHANGED aiVars

\* unlistenOutput.then((fn) => fn()); unlistenDisconnect.then((fn) => fn()):
\* the listeners of an unmounted Terminal are removed when the promises of
\* their registration have resolved and the removal has been carried out.
Unlisten(s) ==
  /\ s \notin mounted
  /\ listening[s] # 0
  /\ listening' = [listening EXCEPT ![s] = 0]
  /\ Quiet
  /\ UNCHANGED <<sessions, activeSessionId, nextSessionId, mounted, status, sessionId,
                 isConnectingRef, connectPending, connectResult,
                 connectCalls, statusRef, sessionIdRef, cleanup>>
  /\ UNCHANGED aiVars
  /\ UNCHANGED serverVars
  /\ UNCHANGED gateVars
  /\ UNCHANGED aiTab

\* Mutant of LatchHeld: the effect does not consult the latch.
LatchNeverHeld(s) == FALSE

\* Mutant of LatchHeld: the latch counts only while the attempt is awaited.
LatchHeldWhileAwaited(s) == isConnectingRef[s] /\ connectPending[s]

\* if (isConnectingRef.current) return;
LatchHeld(s) == isConnectingRef[s]

\* The connect effect of a Terminal (deps [server]).  Past the latch it sets
\* the latch and runs connectToServer up to its await: status CONNECTING, a
\* line on the surface, a fresh session id, and the pty_connect or
\* pty_connect_local call (the two branches differ in the command's
\* parameters only); it returns a cleanup that holds the status and
\* sessionId of its render.  A run that follows an earlier run starts with
\* the earlier run's cleanup; a run stopped by the latch returns no cleanup.
ConnectEffect(s) ==
  /\ s \in mounted
  /\ retriggered' = [x \in SessionIds |-> x = s /\ isConnectingRef[s]]
  /\ IF LatchHeld(s)
     THEN /\ UNCHANGED <<isConnectingRef, status, sessionId, connectCalls,
                         connectPending, connectResult>>
          /\ lastCalls' = CleanupCalls(s)
          /\ cleanup' = [cleanup EXCEPT ![s] = NoCleanup]
          /\ lastFit' = NoFit
          /\ lastRejected' = NoRejection
          /\ lastWrites' = {}
     ELSE /\ isConnectingRef' = [isConnectingRef EXCEPT ![s] = TRUE]
          /\ status' = [status EXCEPT ![s] = "CONNECTING"]
          /\ sessionId' = [sessionId EXCEPT ![s] = NewSessionId(s)]
          /\ connectCalls' = [connectCalls EXCEPT ![s] = @ + 1]
          /\ connectPending' = [connectPending EXCEPT ![s] = TRUE]
          /\ connectResult' = [connectResult EXCEPT ![s] = "none"]
          /\ lastCalls' = {Call("pty_connect", NewSessionId(s))}
          /\ cleanup' = [cleanup EXCEPT ![s] = Closure(status[s], sessionId[s])]
          /\ lastFit' = NoFit
          /\ lastRejected' = NoRejection
          /\ lastWrites' = {Written(s, <<"Connecting">>)}
  /\ lastEvent' = NoEvent
  /\ lastInput' = NoInput
  /\ UNCHANGED <<sessions, activeSessionId, nextSessionId, mounted, listening,
                 statusRef, sessionIdRef>>
  /\ UNCHANGED aiVars
  /\ UNCHANGED serverVars
  /\ UNCHANGED gateVars
  /\ UNCHANGED aiTab

\* The effects of the render that follows setSessionId: the refs are synced
\* (deps [sessionId, status]) and the pty-output and pty-disconnect
\* listeners are registered (deps [sessionId]), comparing with the session
\* id of that render.
ListenEffect(s) ==
  /\ s \in mounted
  /\ sessionId[s] # 0
  /\ listening[s] # sessionId[s]
  /\ listening' = [listening EXCEPT ![s] = sessionId[s]]
  /\ statusRef' = [statusRef EXCEPT ![s] = status[s]]
  /\ sessionIdRef' = [sessionIdRef EXCEPT ![s] = sessionId[s]]
  /\ Quiet
  /\ UNCHANGED <<sessions, activeSessionId, nextSessionId, mounted, status, sessionId,
                 isConnectingRef, connectPending, connectResult,
                 connectCalls, cleanup>>
  /\ UNCHANGED aiVars
  /\ UNCHANGED serverVars
  /\ UNCHANGED gateVars
  /\ UNCHANGED aiTab

\* The ref sync effect (deps [sessionId, status]) after a render in which
\* only the status has changed.
SyncRefsEffect(s) ==
  /\ s \in mounted
  /\ listening[s] = sessionId[s]
  /\ <<statusRef[s], sessionIdRef[s]>> # <<status[s], sessionId[s]>>
  /\ statusRef' = [statusRef EXCEPT ![s] = status[s]]
  /\ sessionIdRef' = [sessionIdRef EXCEPT ![s] = sessionId[s]]
  /\ Quiet
  /\ UNCHANGED <<sessions, activeSessionId, nextSessionId, mounted, status, sessionId,
                 isConnectingRef, listening, connectPending, connectResult,
                 connectCalls, cleanup>>
  /\ UNCHANGED aiVars
  /\ UNCHANGED serverVars
  /\ UNCHANGED gateVars
  /\ UNCHANGED aiTab

\* Mutant of StatusAfterConnect: the catch block does not set the status.
StatusAfterConnectNoCatch(ok) == "CONNECTED"

\* setStatus(CONNECTED) after the awaited call, setStatus(ERROR) in the catch.
StatusAfterConnect(ok) == IF ok THEN "CONNECTED" ELSE "ERROR"

\* Mutant of ResizeAfterFit: the request does not carry the session id.
ResizeAfterFitUntagged(session_id, size) ==
  IF size = FitThrew THEN {} ELSE {Resize(0, size)}

\* Mutant of ResizeAfterFit: the request is sent whether fit() threw or not.
ResizeAfterFitAlways(session_id, size) ==
  {Resize(session_id, IF size = FitThrew THEN CHOOSE z \in Sizes : z.cols = 80 ELSE size)}

\* try { fit(); invoke('pty_resize', { session_id, cols, rows }) } catch { warn }:
\* the request carries the cols and rows of the fitted surface; none is sent
\* when fit() threw.
ResizeAfterFit(session_id, size) ==
  IF size = FitThrew THEN {} ELSE {Resize(session_id, size)}

\* The awaited connect call returns (ok) or throws; connectToServer resumes:
\* the status is set, a line is written to the surface xtermRef holds (the
\* ref keeps the surface after its disposal), and after a success the
\* surface is fitted and pty_resize is called with the session id of the
\* attempt, unless fit() throws.  A state update of an unmounted component is
\* dropped by React.
ConnectReturn(s, ok) ==
  /\ connectPending[s]
  /\ connectPending' = [connectPending EXCEPT ![s] = FALSE]
  /\ IF s \in mounted
     THEN /\ status' = [status EXCEPT ![s] = StatusAfterConnect(ok)]
          /\ connectResult' = [connectResult EXCEPT ![s] = IF ok THEN "ok" ELSE "error"]
     ELSE UNCHANGED <<status, connectResult>>
  /\ lastRejected' = NoRejection
  /\ lastWrites' = {Written(s, <<IF ok THEN "Connected" ELSE "Connection failed">>)}
  /\ IF ok
     THEN \E size \in FitOutcomes :
            /\ lastFit' = Fit(s, size)
            /\ lastCalls' = ResizeAfterFit(sessionId[s], size)
     ELSE /\ lastFit' = NoFit
          /\ lastCalls' = {}
  /\ lastEvent' = NoEvent
  /\ lastInput' = NoInput
  /\ retriggered' = NotRetriggered
  /\ UNCHANGED <<sessions, activeSessionId, nextSessionId, mounted, sessionId,
                 isConnectingRef, listening, connectCalls,
                 statusRef, sessionIdRef, cleanup>>
  /\ UNCHANGED aiVars
  /\ UNCHANGED serverVars
  /\ UNCHANGED gateVars
  /\ UNCHANGED aiTab

\* handleResize, the listener of the window's resize event a mounted Terminal
\* registers with its surface: the surface is fitted and, when the ref holds
\* a session id, pty_resize is called with it.  The event runs the listeners
\* of the mounted Terminals one after the other.
handleResize(s) ==
  /\ s \in mounted
  /\ \E size \in FitOutcomes :
       /\ lastFit' = Fit(s, size)
       /\ lastCalls' = IF sessionIdRef[s] # 0 THEN ResizeAfterFit(sessionIdRef[s], size)
                       ELSE {}
  /\ lastEvent' = NoEvent
  /\ lastInput' = NoInput
  /\ retriggered' = NotRetriggered
  /\ lastWrites' = {}
  /\ lastRejected' = NoRejection
  /\ UNCHANGED <<sessions, activeSessionId, nextSessionId, mounted, status, sessionId,
                 isConnectingRef, listening, connectPending, connectResult,
                 connectCalls, statusRef, sessionIdRef, cleanup>>
  /\ UNCHANGED aiVars
  /\ UNCHANGED serverVars
  /\ UNCHANGED gateVars
  /\ UNCHANGED aiTab

\* Mutant of StatusAfterRejection: the rejection is taken for a lost connection.
StatusAfterRejectionError(st) == "ERROR"

\* .catch(console.error), .catch((error) => { console.error(...) }): the
\* handler of a rejected call logs and sets nothing.
StatusAfterRejection(st) == st

\* The promise of a pty_write, pty_resize or pty_disconnect call is
\* rejected and its catch handler runs.  The handler reads no state, so it
\* is taken here right after the step that issued the call.
CallRejected(c) ==
  /\ c \in lastCalls
  /\ c.cmd \in BestEffortCmds
  /\ lastRejected' = c
  /\ status' = [s \in SessionIds |->
                  IF s \in mounted /\ sessionId[s] = c.session_id
                  THEN StatusAfterRejection(status[s]) ELSE status[s]]
  /\ lastEvent' = NoEvent
  /\ lastInput' = NoInput
  /\ retriggered' = NotRetriggered
  /\ lastCalls' = {}
  /\ lastWrites' = {}
  /\ lastFit' = NoFit
  /\ UNCHANGED <<sessions, activeSessionId, nextSessionId, mounted, sessionId,
                 isConnectingRef, listening, connectPending, connectResult,
                 connectCalls, statusRef, sessionIdRef, cleanup>>
  /\ UNCHANGED aiVars
  /\ UNCHANGED serverVars
  /\ UNCHANGED gateVars
  /\ UNCHANGED aiTab

\* The session ids the transport was given in connect calls.
IssuedIds == {sessionId[s] : s \in SessionIds} \ {0}

\* Mutant of DisconnectMatches: the listener does not compare the ids.
DisconnectMatchesAny(s, session_id) == TRUE

\* if (payload.session_id === sessionId) of the pty-disconnect listener
DisconnectMatches(s, session_id) == listening[s] = session_id

\* The transport pushes pty-disconnect for a session id it was given in a
\* connect call; every registered listener receives it, sets the status and
\* writes two lines to the surface xtermRef holds.
PtyDisconnectEvent(session_id) ==
  /\ session_id \in IssuedIds
  /\ lastEvent' = [kind |-> "pty-disconnect", session_id |-> session_id, data |-> "error"]
  /\ status' = [s \in SessionIds |->
                  IF s \in mounted /\ listening[s] # 0 /\ DisconnectMatches(s, session_id)
                  THEN "ERROR" ELSE status[s]]
  /\ lastFit' = NoFit
  /\ lastRejected' = NoRejection
  /\ lastWrites' = {Written(s, <<"error", "Connection lost">>) :
                      s \in {x \in SessionIds :
                               listening[x] # 0 /\ DisconnectMatches(x, session_id)}}
  /\ lastInput' = NoInput
  /\ retriggered' = NotRetriggered
  /\ lastCalls' = {}
  /\ UNCHANGED <<sessions, activeSessionId, nextSessionId, mounted, sessionId,
                 isConnectingRef, listening, connectPending, connectResult,
                 connectCalls, statusRef, sessionIdRef, cleanup>>
  /\ UNCHANGED aiVars
  /\ UNCHANGED serverVars
  /\ UNCHANGED gateVars
  /\ UNCHANGED aiTab

\* Mutant of OutputMatches: the listener does not compare the ids.
OutputMatchesAny(s, session_id) == TRUE

\* if (payload.session_id === sessionId && xtermRef.current) of the
\* pty-output listener; xtermRef holds the surface from the mount on.
OutputMatches(s, session_id) == listening[s] = session_id

\* The transport pushes pty-output for a session id it was given in a connect
\* call; every registered listener receives it and writes the data of a
\* matching event to the surface xtermRef holds.
PtyOutputEvent(session_id, data) ==
  /\ session_id \in IssuedIds
  /\ lastEvent' = [kind |-> "pty-output", session_id |-> session_id, data |-> data]
  /\ lastFit' = NoFit
  /\ lastRejected' = NoRejection
  /\ lastWrites' = {Written(s, <<data>>) :
                      s \in {x \in SessionIds :
                               listening[x] # 0 /\ OutputMatches(x, session_id)}}
  /\ lastInput' = NoInput
  /\ retriggered' = NotRetriggered
  /\ lastCalls' = {}
  /\ UNCHANGED <<sessions, activeSessionId, nextSessionId, mounted, status, sessionId,
                 isConnectingRef, listening, connectPending, connectResult,
                 connectCalls, statusRef, sessionIdRef, cleanup>>
  /\ UNCHANGED aiVars
  /\ UNCHANGED serverVars
  /\ UNCHANGED gateVars
  /\ UNCHANGED aiTab

\* term.onData: a keystroke on the surface of a mounted Terminal (the
\* surface exists once the mount's effects have run) is written to the
\* transport if (sessionIdRef.current && statusRef.current === CONNECTED),
\* else it is dropped with a warning.
onData(s) ==
  /\ s \in mounted
  /\ isConnectingRef[s]
  /\ lastInput' = Input("onData", s)
  /\ retriggered' = NotRetriggered
  /\ lastCalls' = IF sessionIdRef[s] # 0 /\ statusRef[s] = "CONNECTED"
                  THEN {Call("pty_write", sessionIdRef[s])}
                  ELSE {}
  /\ lastEvent' = NoEvent
  /\ lastFit' = NoFit
  /\ lastRejected' = NoRejection
  /\ lastWrites' = {}
  /\ UNCHANGED <<sessions, activeSessionId, nextSessionId, mounted, status, sessionId,
                 isConnectingRef, listening, connectPending, connectResult,
                 connectCalls, statusRef, sessionIdRef, cleanup>>
  /\ UNCHANGED aiVars
  /\ UNCHANGED serverVars
  /\ UNCHANGED gateVars
  /\ UNCHANGED aiTab

\* handleQuickCommand of the render in effect:
\* if (sessionId && status === CONNECTED && xtermRef.current) invoke('pty_write')
handleQuickCommand(s) ==
  /\ s \in mounted
  /\ isConnectingRef[s]
  /\ lastInput' = Input("handleQuickCommand", s)
  /\ retriggered' = NotRetriggered
  /\ lastCalls' = IF sessionId[s] # 0 /\ status[s] = "CONNECTED"
                  THEN {Call("pty_write", sessionId[s])}
                  ELSE {}
  /\ lastEvent' = NoEvent
  /\ lastFit' = NoFit
  /\ lastRejected' = NoRejection
  /\ lastWrites' = {}
  /\ UNCHANGED <<sessions, activeSessionId, nextSessionId, mounted, status, sessionId,
                 isConnectingRef, listening, connectPending, connectResult,
                 connectCalls, statusRef, sessionIdRef, cleanup>>
  /\ UNCHANGED aiVars
  /\ UNCHANGED serverVars
  /\ UNCHANGED gateVars
  /\ UNCHANGED aiTab

TermNext ==
  \/ handleSelectServer(LocalServer)
  \/ \E id \in SessionIds : setActiveSessionId(id)
  \/ \E id \in SessionIds : handleCloseSession(id)
  \/ \E s \in SessionIds : Unlisten(s)
  \/ \E s \in SessionIds : ConnectEffect(s)
  \/ \E s \in SessionIds : ListenEffect(s)
  \/ \E s \in SessionIds : SyncRefsEffect(s)
  \/ \E s \in SessionIds, ok \in BOOLEAN : ConnectReturn(s, ok)
  \/ \E t \in TransportIds : PtyDisconnectEvent(t)

\* The output events of the transport.
OutputNext == \E t \in TransportIds, data \in OutputData : PtyOutputEvent(t, data)

\* The input of the user to a Terminal.
InputNext ==
  \/ \E s \in SessionIds : onData(s)
  \/ \E s \in SessionIds : handleQuickCommand(s)

(***************************************************************************)
(* The AI panel of a Terminal.                                             *)
(***************************************************************************)
\* The state of the registry and of the Terminals that lasts beyond a step.
tabState == <<sessions, activeSessionId, nextSessionId, mounted, status, sessionId,
              isConnectingRef, listening, connectPending, connectResult,
              connectCalls, statusRef, sessionIdRef, cleanup>>

\* { ...settings, activeProvider: selectedProvider }: the settings a panel
\* calls the gateway with, and the backend outcomes it meets.
PanelSettings == {Settings("ollama", TRUE, Str(<<>>)), Settings("openai", TRUE, Str(<<"sk-test">>))}
PanelOutcomes ==
  {Outcome("network", <<"Network error">>, NoStatus, Undefined),
   Outcome("reply", <<>>, NoStatus, Str(ReplyCommand)),
   Outcome("reply", <<>>, NoStatus, Str(ReplyNull))}

\* The current line of the surface's buffer, trimmed; <<>> for an empty line.
PanelLines == {<<>>, <<"ls -la">>}

\* Mutant of PanelCalls: the suggested command is sent to the transport.
PanelCallsWriteSuggestion(s, result) ==
  IF result.value.t = "obj" /\ Truthy(Get(result.value, KeySuggested))
  THEN {Call("pty_write", sessionId[s])} ELSE {}

\* The transport calls of handleAiAsk and handleAutoCorrect: they hold no
\* invoke.
PanelCalls(s, result) == {}

\* Reading a member of null or undefined throws and ends the handler.
MemberReadThrows(value) == value.t \in {"undefined", "null"}

\* if (result.suggestedCommand && xtermRef.current)
\*   xtermRef.current.write('Suggested: ' + result.suggestedCommand)
AskWrites(s, value) ==
  IF ~MemberReadThrows(value) /\ Truthy(Get(value, KeySuggested))
  THEN {Written(s, <<"Suggested">> \o Get(value, KeySuggested).s)}
  ELSE {}

\* if (result.suggestedCommand && result.suggestedCommand !== currentLine)
\*   write('Suggestion: ' + result.suggestedCommand)
\* else write('Command looks good: ' + result.markdown)
AutoCorrectWrites(s, value, currentLine) ==
  IF MemberReadThrows(value) THEN {}
  ELSE IF Truthy(Get(value, KeySuggested)) /\ Get(value, KeySuggested) # Str(currentLine)
  THEN {Written(s, <<"Suggestion">> \o Get(value, KeySuggested).s)}
  ELSE {Written(s, <<"Command looks good">> \o Get(value, KeyMarkdown).s)}

\* handleAiAsk up to its await: askAI is called with the panel's settings.
\* One panel awaits the gateway at a time.
handleAiAsk(s, settings) ==
  /\ s \in mounted
  /\ aiTab = 0
  /\ aiTab' = s
  /\ AskAIStart(settings)
  /\ Quiet
  /\ UNCHANGED tabState
  /\ UNCHANGED serverVars
  /\ UNCHANGED gateVars

\* handleAutoCorrect up to its await, offered once the Terminal has a
\* session id (disabled={!sessionId || isAiLoading}): it returns on an empty
\* current line, and calls autoCorrectAI with the line otherwise.
handleAutoCorrect(s, settings, currentLine) ==
  /\ s \in mounted
  /\ sessionId[s] # 0
  /\ aiTab = 0
  /\ IF currentLine = <<>>
     THEN UNCHANGED <<aiVars, aiTab>>
     ELSE aiTab' = s /\ AutoCorrectAIStart(settings, currentLine)
  /\ Quiet
  /\ UNCHANGED tabState
  /\ UNCHANGED serverVars
  /\ UNCHANGED gateVars

\* The backend's outcome arrives and the gateway call of the panel returns.
PanelBackendReturn(outcome) ==
  /\ aiTab # 0
  /\ AskAIEnd(outcome) \/ AutoCorrectEnd(outcome)
  /\ Quiet
  /\ UNCHANGED <<tabState, aiTab>>
  /\ UNCHANGED serverVars
  /\ UNCHANGED gateVars

\* The handler resumes after its await with the gateway's result: the
\* response goes to the panel and the suggestion to the surface xtermRef
\* holds.
PanelResume(s) ==
  /\ aiTab = s
  /\ aiResult.kind = "resolved"
  /\ AIResultTaken
  /\ aiTab' = 0
  /\ lastWrites' = IF aiCall.mode = "ask" THEN AskWrites(s, aiResult.value)
                    ELSE AutoCorrectWrites(s, aiResult.value, aiCall.command)
  /\ lastCalls' = PanelCalls(s, aiResult)
  /\ lastEvent' = NoEvent
  /\ lastInput' = NoInput
  /\ retriggered' = NotRetriggered
  /\ lastFit' = NoFit
  /\ lastRejected' = NoRejection
  /\ UNCHANGED tabState
  /\ UNCHANGED serverVars
  /\ UNCHANGED gateVars

PanelNext ==
  \/ \E s \in SessionIds, settings \in PanelSettings : handleAiAsk(s, settings)
  \/ \E s \in SessionIds, settings \in PanelSettings, line \in PanelLines :
       handleAutoCorrect(s, settings, line)
  \/ \E outcome \in PanelOutcomes : PanelBackendReturn(outcome)
  \/ \E s \in SessionIds : PanelResume(s)

\* The frame of a step of the gate: no session, server or gateway state
\* changes and nothing goes to the transport or a surface.
GateFrame ==
  /\ Quiet
  /\ UNCHANGED <<sessions, activeSessionId, nextSessionId, mounted, status, sessionId,
                 isConnectingRef, listening, connectPending, connectResult,
                 connectCalls, statusRef, sessionIdRef, cleanup, aiTab>>
  /\ UNCHANGED aiVars
  /\ UNCHANGED serverVars

\* App's mount effect, initDb, from its first call to its finally: the
\* loading screen is all that is rendered meanwhile.
initDb(rejected) ==
  /\ isCheckingDb
  /\ rejected = "is_database_unlocked" => store.hasMasterPw
  /\ isDbLocked' = LockedAfterInit(isDbLocked, store, rejected)
  /\ isCheckingDb' = FALSE
  /\ UNCHANGED <<store, password, error, isLoading, unlockPending>>
  /\ GateFrame

\* UnlockPrompt's input: onChange={(e) => setPassword(e.target.value)}
setPassword(value) ==
  /\ isDbLocked
  /\ value # password
  /\ password' = value
  /\ UNCHANGED <<isDbLocked, isCheckingDb, store, error, isLoading, unlockPending>>
  /\ GateFrame

\* UnlockPrompt.handleUnlock up to its await, from the button or the Enter
\* key (the key handler does not look at isLoading).
handleUnlock ==
  /\ isDbLocked
  /\ IF password = <<>>
     THEN /\ error' = <<"Please enter your password">>
          /\ UNCHANGED <<isLoading, unlockPending>>
     ELSE /\ Len(unlockPending) < MaxPending
          /\ isLoading' = TRUE
          /\ error' = NoError
          /\ unlockPending' = Append(unlockPending, password)
  /\ UNCHANGED <<isDbLocked, isCheckingDb, store, password>>
  /\ GateFrame

\* An unlock_database call ends and handleUnlock resumes: onUnlock() is
\* App.handleUnlock, setIsDbLocked(false), after which the prompt is
\* unmounted and its state discarded; a rejection goes to setError. The
\* setters of a prompt already unmounted change nothing.
UnlockReturn(i, outcome) ==
  /\ i \in DOMAIN unlockPending
  /\ unlockPending' = [j \in 1..(Len(unlockPending) - 1) |->
                         IF j < i THEN unlockPending[j] ELSE unlockPending[j + 1]]
  /\ store' = IF outcome.ok THEN [store EXCEPT !.unlocked = TRUE] ELSE store
  /\ IF ~isDbLocked
     THEN UNCHANGED <<isDbLocked, password, error, isLoading>>
     ELSE IF outcome.ok
     THEN /\ isDbLocked' = FALSE
          /\ password' = <<>>
          /\ error' = NoError
          /\ isLoading' = FALSE
     ELSE /\ error' = UnlockErrorText(outcome.err)
          /\ isLoading' = FALSE
          /\ UNCHANGED <<isDbLocked, password>>
  /\ UNCHANGED isCheckingDb
  /\ GateFrame

GateNext ==
  \/ \E rejected \in StartupRejections : initDb(rejected)
  \/ \E value \in Passwords : setPassword(value)
  \/ handleUnlock
  \/ \E i \in 1..MaxPending, outcome \in UnlockOutcomes : UnlockReturn(i, outcome)

\* The window's resize events and the rejections of best-effort calls.
CallNext ==
  \/ \E s \in SessionIds : handleResize(s)
  \/ \E c \in lastCalls : CallRejected(c)

\* The saved server list: a session on a saved server, and the servers the
\* user adds and deletes.
ServerNext ==
  \/ \E i \in DOMAIN servers : handleSelectServer(servers[i])
  \/ handleAddServer
  \/ \E id \in ServerIds : handleDeleteServer(id)

Init == AIInit /\ TermInit /\ GateChecked
SpecAI == Init /\ [][AINext]_vars

\* The session registry and the terminals: the gateway stays idle.
Next == TermNext
Spec == Init /\ [][Next]_vars

\* The same with the output events of the transport.
NextOutput == TermNext \/ OutputNext
SpecOutput == Init /\ [][NextOutput]_vars

\* The same with the output events and the input of the user.
NextIO == TermNext \/ OutputNext \/ InputNext
SpecIO == Init /\ [][NextIO]_vars

\* The registry and the terminals with the keys the user types, the window's
\* resize events and the rejections of best-effort calls.  Switching tabs,
\* which changes what is visible only, is left to Spec.
NextCalls ==
  \/ handleSelectServer(LocalServer)
  \/ \E id \in SessionIds : handleCloseSession(id)
  \/ \E s \in SessionIds : Unlisten(s)
  \/ \E s \in SessionIds : ConnectEffect(s)
  \/ \E s \in SessionIds : ListenEffect(s)
  \/ \E s \in SessionIds : SyncRefsEffect(s)
  \/ \E s \in SessionIds, ok \in BOOLEAN : ConnectReturn(s, ok)
  \/ \E t \in TransportIds : PtyDisconnectEvent(t)
  \/ \E s \in SessionIds : onData(s)
  \/ CallNext
SpecCalls == Init /\ [][NextCalls]_vars

\* The registry and the terminals with every source and every receiver of
\* a transport session id: the connect call, the keys the user types, the
\* resize events, and the output and disconnect events.  Switching tabs is
\* left to Spec.
NextIds ==
  \/ handleSelectServer(LocalServer)
  \/ \E id \in SessionIds : handleCloseSession(id)
  \/ \E s \in SessionIds : Unlisten(s)
  \/ \E s \in SessionIds : ConnectEffect(s)
  \/ \E s \in SessionIds : ListenEffect(s)
  \/ \E s \in SessionIds : SyncRefsEffect(s)
  \/ \E s \in SessionIds, ok \in BOOLEAN : ConnectReturn(s, ok)
  \/ \E t \in TransportIds : PtyDisconnectEvent(t)
  \/ OutputNext
  \/ InputNext
  \/ \E s \in SessionIds : handleResize(s)
SpecIds == Init /\ [][NextIds]_vars

\* The life of the sessions, up to the outcome of their connect call, with
\* the AI panels of their Terminals.
NextPanel ==
  \/ handleSelectServer(LocalServer)
  \/ \E id \in SessionIds : handleCloseSession(id)
  \/ \E s \in SessionIds : ConnectEffect(s)
  \/ \E s \in SessionIds, ok \in BOOLEAN : ConnectReturn(s, ok)
  \/ PanelNext
SpecPanel == Init /\ [][NextPanel]_vars

\* The application from its construction: the startup check, the unlock
\* prompt, and the sessions of the main view.
InitGate == AIInit /\ TermInit /\ GateInit
NextGate ==
  \/ GateNext
  \/ handleSelectServer(LocalServer)
  \/ \E id \in SessionIds : handleCloseSession(id)
  \/ \E s \in SessionIds : ConnectEffect(s)
SpecGate == InitGate /\ [][NextGate]_vars

\* The registry and the terminals with the saved server list.
NextServers == TermNext \/ ServerNext
SpecServers == Init /\ [][NextServers]_vars

(***************************************************************************)
(* Properties of the AI gateway, checked under SpecAI.                     *)
(***************************************************************************)
Contains(text, atom) == \E i \in DOMAIN text : text[i] = atom
EndsWith(text, suffix) ==
  /\ Len(text) >= Len(suffix)
  /\ SubSeq(text, Len(text) - Len(suffix) + 1, Len(text)) = suffix

\* The markdown text of the response a finished call resolved with.
Markdown == Get(aiResult.value, KeyMarkdown).s
ActiveProvider == aiCall.settings.activeProvider
AskDone == aiCall.mode = "ask" /\ aiPc = "done"
KeyedProviders == ProviderIds \ {"ollama"}

C2_MissingKeyIsConfigurationError ==
  (/\ aiCall.mode = "ask"
   /\ ActiveProvider \in KeyedProviders
   /\ ProviderConfig(aiCall.settings).defined
   /\ ~Truthy(ProviderConfig(aiCall.settings).apiKey))
  => /\ aiPc = "done"
     /\ aiRequests = 0
     /\ aiResult.kind = "resolved"
     /\ Contains(Markdown, "Configuration Error")
     /\ Contains(Markdown, "Missing API Key")
     /\ Contains(Markdown, ActiveProvider)

C2_Witness ==
  /\ AskDone
  /\ ActiveProvider = "anthropic"
  /\ ProviderConfig(aiCall.settings).apiKey = Str(<<>>)
  /\ aiRequests = 0

\* C3: with an activeProvider outside the six known identifiers, for which
\* settings.providers has no entry, the response's markdown is exactly
\* 'Unknown provider selected.'.
C3_UnknownProviderLiteral ==
  (/\ AskDone
   /\ ActiveProvider \in UnknownIds
   /\ ~ProviderConfig(aiCall.settings).defined)
  => Markdown = UnknownProviderText

\* The reply of the locally hosted backend is empty or white space only.
BlankOllamaReply ==
  /\ AskDone
  /\ ActiveProvider = "ollama"
  /\ aiOutcome.kind = "reply"
  /\ aiOutcome.content.t = "str"
  /\ Trim(aiOutcome.content.s) = <<>>

C6_FailureNamesProviderAndCause ==
  (AskDone /\ aiOutcome.kind \in {"network", "http"})
  => /\ aiResult.kind = "resolved"
     /\ Len(Markdown) >= 2
     /\ SubSeq(Markdown, 1, 2) = <<"Error connecting to ", ActiveProvider>>
     /\ LET rest == SubSeq(Markdown, 3, Len(Markdown))
        IN IF aiOutcome.kind = "network"
           THEN EndsWith(rest, aiOutcome.message)
           ELSE \/ Contains(rest, aiOutcome.http.status)
                \/ Contains(rest, aiOutcome.http.statusText)

C6_Witness ==
  /\ AskDone
  /\ ActiveProvider = "ollama"
  /\ aiOutcome.kind = "network"
  /\ aiOutcome.message = <<"Network error">>
  /\ EndsWith(Markdown, <<"Network error">>)

(***************************************************************************)
(* Properties of the connection state machine, checked under Spec.         *)
(***************************************************************************)
\* C7: a session is DISCONNECTED until its connect call is issued, issuing
\* the call moves it to CONNECTING, and when the call returns the session
\* becomes CONNECTED on success and ERROR on failure.
C7_ConnectOutcomeSetsStatus ==
  /\ [](\A s \in SessionIds : connectCalls[s] = 0 => status[s] = "DISCONNECTED")
  /\ [][\A s \in SessionIds :
          /\ (status[s] = "DISCONNECTED" /\ connectCalls'[s] > connectCalls[s])
             => status'[s] = "CONNECTING"
          /\ (s \in mounted /\ connectPending[s] /\ ~connectPending'[s])
             => status'[s] = (IF connectResult'[s] = "ok" THEN "CONNECTED" ELSE "ERROR")
       ]_vars

C7_Witness ==
  \E a, b \in mounted :
    /\ status[a] = "CONNECTED" /\ connectResult[a] = "ok"
    /\ status[b] = "ERROR" /\ connectResult[b] = "error"

\* C8: however often the connect effect of a session runs, also again before
\* the first attempt has completed, the transport receives exactly one
\* connect call for the session.
C8_SingleConnectCall ==
  \A s \in SessionIds :
    /\ connectCalls[s] <= 1
    /\ (isConnectingRef[s] \/ retriggered[s]) => connectCalls[s] = 1

C8_Witness ==
  \E s \in mounted : retriggered[s] /\ connectPending[s] /\ connectCalls[s] = 1

\* C9: once the status of an open session is ERROR it stays ERROR.
C9_ErrorIsFinal ==
  [][\A s \in SessionIds :
       (s \in mounted /\ s \in mounted' /\ status[s] = "ERROR") => status'[s] = "ERROR"
    ]_vars

\* C10: when the transport pushes a disconnect notification carrying the
\* session id of an open session, that session's status becomes ERROR.
C10_DisconnectForcesError ==
  [][\A s \in SessionIds :
       (/\ lastEvent'.kind = "pty-disconnect"
        /\ s \in mounted
        /\ sessionId[s] # 0
        /\ lastEvent'.session_id = sessionId[s])
       => status'[s] = "ERROR"
    ]_vars

\* C11: a disconnect notification carrying the session id of another
\* session, or of a session that has been closed, leaves the status of every
\* open session it does not name as it was.
C11_ForeignDisconnectIgnored ==
  [][lastEvent'.kind = "pty-disconnect"
     => \A s \in mounted :
          sessionId[s] # lastEvent'.session_id
          => /\ status'[s] = status[s]
             /\ \A w \in lastWrites' : w.surface # s
    ]_vars

C11_Witness ==
  /\ lastEvent.kind = "pty-disconnect"
  /\ \E a \in mounted, b \in SessionIds \ mounted :
       /\ listening[a] = sessionId[a]
       /\ sessionId[a] # 0
       /\ status[a] = "CONNECTED"
       /\ listening[b] = lastEvent.session_id

\* C13: closing a session whose status is CONNECTED issues a disconnect
\* request to the transport for the session's transport id.
C13_CloseDisconnectsTransport ==
  [][\A s \in SessionIds :
       (s \in mounted /\ s \notin mounted' /\ status[s] = "CONNECTED")
       => [cmd |-> "pty_disconnect", session_id |-> sessionId[s]] \in lastCalls'
    ]_vars

\* C16: closing a session leaves the status, the transport session id and
\* the surface of every other open session as they were, and issues no
\* transport call tagged with another session's id.
C16_CloseLeavesOthers ==
  [][\A a \in SessionIds :
       (a \in OpenIds /\ a \notin OpenIds')
       => /\ \A b \in mounted \ {a} :
               /\ b \in mounted'
               /\ status'[b] = status[b]
               /\ sessionId'[b] = sessionId[b]
               /\ listening'[b] = listening[b]
               /\ \A w \in lastWrites' : w.surface # b
          /\ \A c \in lastCalls' : c.session_id = sessionId[a]
    ]_vars

C16_Witness ==
  \E a \in SessionIds \ mounted, b \in mounted :
    /\ sessionId[a] # 0
    /\ connectPending[a]
    /\ activeSessionId = b
    /\ status[b] = "CONNECTED"
    /\ listening[b] = sessionId[b]

\* C18: when the connect call of a session that was closed while it was
\* awaited returns, nothing is written to a surface, no transport call is
\* issued and no session's state is changed.
C18_LateConnectResultDiscarded ==
  [][\A s \in SessionIds :
       (s \notin mounted /\ connectPending[s] /\ ~connectPending'[s])
       => /\ lastWrites' = {}
          /\ lastCalls' = {}
          /\ status' = status
    ]_vars

\* C19: the active session pointer is empty exactly when no session is
\* open, and otherwise it is the id of an open session.
C19_ActivePointerIsLive ==
  /\ activeSessionId = 0 <=> sessions = <<>>
  /\ activeSessionId # 0 => activeSessionId \in OpenIds

C19_Witness ==
  /\ nextSessionId = 3
  /\ Len(sessions) = 1
  /\ sessions[1].id = 2
  /\ activeSessionId = 2

(***************************************************************************)
(* Properties of the output routing, checked under SpecOutput.             *)
(***************************************************************************)
\* C14: every output event carrying the session id of an open session,
\* pushed after the session's connect call was issued, is written to the
\* session's surface.
C14_OutputDelivered ==
  [][\A s \in SessionIds :
       (/\ lastEvent'.kind = "pty-output"
        /\ s \in mounted
        /\ sessionId[s] # 0
        /\ lastEvent'.session_id = sessionId[s])
       => [surface |-> s, lines |-> <<lastEvent'.data>>] \in lastWrites'
    ]_vars

\* C15: an output event carrying a session's id is written to the surface
\* of the Terminal listening for that id and to no other surface, whichever
\* session is the active one.
C15_OutputOnlyToItsSession ==
  [][lastEvent'.kind = "pty-output"
     => \A s \in mounted :
          /\ (listening[s] # 0 /\ sessionId[s] = lastEvent'.session_id)
             => [surface |-> s, lines |-> <<lastEvent'.data>>] \in lastWrites'
          /\ sessionId[s] # lastEvent'.session_id
             => \A w \in lastWrites' : w.surface # s
    ]_vars

C15_Witness ==
  /\ lastEvent.kind = "pty-output"
  /\ \E a, b \in mounted :
       /\ a # b
       /\ activeSessionId = b
       /\ listening[a] = lastEvent.session_id
       /\ listening[b] = sessionId[b]
       /\ sessionId[b] # 0
       /\ lastWrites = {[surface |-> a, lines |-> <<lastEvent.data>>]}

\* C17: an output event carrying the session id of a session that has been
\* closed is written to no surface.
C17_OutputAfterCloseDropped ==
  [][(/\ lastEvent'.kind = "pty-output"
      /\ \E s \in SessionIds \ mounted : sessionId[s] = lastEvent'.session_id)
     => lastWrites' = {}
    ]_vars

(***************************************************************************)
(* Properties of the input forwarding, checked under SpecIO.               *)
(***************************************************************************)
\* C12: input that arrives while the status of its session is not CONNECTED
\* issues no transport call.
C12_WritesOnlyWhileConnected ==
  [][\A s \in SessionIds :
       (lastInput'.kind # "none" /\ lastInput'.session = s /\ status[s] # "CONNECTED")
       => lastCalls' = {}
    ]_vars

(***************************************************************************)
(* Properties of the reply normalizer, checked under SpecAI.               *)
(***************************************************************************)
\* The replies that wrap the object {"markdown": "Test", "suggestedCommand":
\* null} in a fenced code block, with and without the json tag.
FencedReplies == {ReplyFenced, ReplyFencedBare}

\* C20: for a reply that wraps the object in a fenced code block, the
\* response carries the fields of the object: markdown 'Test' and
\* suggestedCommand null.
C20_FencedObjectNormalized ==
  (/\ AskDone
   /\ ActiveProvider = "ollama"
   /\ aiOutcome.kind = "reply"
   /\ aiOutcome.content.t = "str"
   /\ aiOutcome.content.s \in FencedReplies)
  => /\ aiResult.kind = "resolved"
     /\ Get(aiResult.value, KeyMarkdown) = Str(<<"Test">>)
     /\ Get(aiResult.value, KeySuggested) = Null

C20_Witness ==
  /\ AskDone
  /\ ActiveProvider = "ollama"
  /\ aiOutcome.kind = "reply"
  /\ aiOutcome.content = Str(ReplyFencedBare)
  /\ Get(aiResult.value, KeyMarkdown) = Str(<<"Test">>)

\* A finished askAI call to the locally hosted backend whose reply is a
\* text that is not empty after trimming.
OllamaReplied ==
  /\ AskDone
  /\ ActiveProvider = "ollama"
  /\ aiOutcome.kind = "reply"
  /\ aiOutcome.content.t = "str"
  /\ Trim(aiOutcome.content.s) # <<>>

\* The reply's text as the normalizer receives it.
ReplyText == Trim(aiOutcome.content.s)

\* Replies that are plain prose: no brace, no quote, no fence.
ProseReplies == {ReplyProse, ReplyDigitProse}

\* C21: for a reply that is plain prose with no JSON in it, the response's
\* markdown is the prose unchanged and there is no suggested command.
C21_ProseUnchanged ==
  (OllamaReplied /\ aiOutcome.content.s \in ProseReplies)
  => /\ aiResult.kind = "resolved"
     /\ Markdown = aiOutcome.content.s
     /\ Get(aiResult.value, KeySuggested) = Undefined

\* C22: for a reply whose trimmed text parses as a JSON object with a
\* markdown member (whatever its value) or a suggestedCommand member, the
\* response carries the markdown and the suggestedCommand of that object.
C22_WholeReplyObjectAccepted ==
  OllamaReplied
  => LET r == JSONParse(Str(ReplyText))
     IN (/\ r.ok
         /\ r.v.t = "obj"
         /\ \/ Get(r.v, KeyMarkdown) # Undefined
            \/ Get(r.v, KeySuggested) # Undefined)
        => /\ aiResult.kind = "resolved"
           /\ Get(r.v, KeyMarkdown) # Undefined
              => Get(aiResult.value, KeyMarkdown) = Get(r.v, KeyMarkdown)
           /\ Get(aiResult.value, KeySuggested) = Get(r.v, KeySuggested)

\* C29: the response comes from the earliest of the strategies whole-reply
\* parse, fenced-block parse, brace-span parse that succeeds, and from the
\* fallback when none does.
C29_EarliestStrategyWins ==
  OllamaReplied
  => /\ aiResult.kind = "resolved"
     /\ Strategy1(ReplyText).hit => aiResult.value = Strategy1(ReplyText).value
     /\ (~Strategy1(ReplyText).hit /\ Strategy2(ReplyText).hit)
        => aiResult.value = Strategy2(ReplyText).value
     /\ (~Strategy1(ReplyText).hit /\ ~Strategy2(ReplyText).hit /\ Strategy3(ReplyText).hit)
        => aiResult.value = Strategy3(ReplyText).value
     /\ (~Strategy1(ReplyText).hit /\ ~Strategy2(ReplyText).hit /\ ~Strategy3(ReplyText).hit)
        => aiResult.value = Fallback(ReplyText)

C29_Witness ==
  /\ OllamaReplied
  /\ aiOutcome.content = Str(ReplyTwoObjects)
  /\ Strategy2(ReplyText).hit
  /\ Strategy3(ReplyText).hit
  /\ Strategy2(ReplyText).value # Strategy3(ReplyText).value
  /\ Markdown = <<"Test">>

\* C30: a reply that is not empty after trimming always ends in a response
\* and never in an error diagnostic, and the markdown of a response that
\* comes from the fallback is not empty.
C30_NonEmptyReplyNormalized ==
  OllamaReplied
  => /\ aiResult.kind = "resolved"
     /\ Get(aiResult.value, KeyMarkdown).t = "str"
     /\ Head(Markdown \o <<"">>) # "Error connecting to "
     /\ (~Strategy1(ReplyText).hit /\ ~Strategy2(ReplyText).hit /\ ~Strategy3(ReplyText).hit)
        => Markdown # <<>>

C30_Witness ==
  /\ OllamaReplied
  /\ aiOutcome.content = Str(ReplyFenceOnly)
  /\ Markdown = ReplyFenceOnly

(***************************************************************************)
(* Properties of autoCorrectAI, checked under SpecAI.                      *)
(***************************************************************************)
AutoCorrectDone == aiCall.mode = "autocorrect" /\ aiPc = "done"

\* C23: when the request of the selected backend fails (the request itself
\* or a non-success status) in an autoCorrectAI call, the call does not
\* reject: it resolves with markdown 'Unable to analyze command.' and with
\* suggestedCommand equal to the command it was given.
C23_AutoCorrectFailureKeepsCommand ==
  /\ aiCall.mode = "autocorrect" => aiResult.kind # "rejected"
  /\ (AutoCorrectDone /\ aiOutcome.kind \in {"network", "http"})
     => /\ aiResult.kind = "resolved"
        /\ Markdown = UnableToAnalyzeText
        /\ Get(aiResult.value, KeySuggested) = Str(aiCall.command)

C23_Witness ==
  /\ AutoCorrectDone
  /\ ActiveProvider = "ollama"
  /\ aiCall.command = <<"invalid command">>
  /\ aiOutcome.kind = "network"
  /\ aiRequests = 1
  /\ Get(aiResult.value, KeySuggested) = Str(<<"invalid command">>)

\* C24: autoCorrectAI applies the precondition checks of askAI: with a
\* provider that needs a credential and whose configuration or key is
\* missing, it issues no request and the call has ended with a response;
\* with a provider outside the known identifiers the response's markdown is
\* 'Unknown provider selected.'.
C24_AutoCorrectChecksPreconditions ==
  aiCall.mode = "autocorrect"
  => /\ (ActiveProvider \in KeyedProviders /\ MissingCredential(aiCall.settings))
        => /\ aiRequests = 0
           /\ aiPc = "done"
           /\ aiResult.kind = "resolved"
     /\ (ActiveProvider \in UnknownIds /\ aiPc = "done")
        => Markdown = UnknownProviderText

\* The backend's request failed, or its reply carries no content.
RequestFailed ==
  \/ aiOutcome.kind \in {"network", "http"}
  \/ aiOutcome.kind = "reply" /\ ~Truthy(aiOutcome.content)

\* The response is the failure response of the entry point called.
FailureResponse ==
  /\ aiResult.kind = "resolved"
  /\ IF aiCall.mode = "ask"
     THEN Markdown # <<>> /\ Head(Markdown) = "Error connecting to "
     ELSE Markdown = UnableToAnalyzeText

\* C25: a call of askAI or autoCorrectAI issues at most one request; a
\* request that failed (network error, non-success status, empty payload)
\* is not issued again, and the call ends with one failure response.
C25_OneRequestOneFailureResponse ==
  /\ aiRequests <= 1
  /\ (aiPc = "done" /\ RequestFailed) => (aiRequests = 1 /\ FailureResponse)

(***************************************************************************)
(* Properties of the saved server list, checked under SpecServers.         *)
(***************************************************************************)
\* C26: whatever servers are added to and deleted from the saved list, an
\* open session resolves to the target it was created from, and its
\* Terminal stays mounted on it.
C26_TargetNeverChanges ==
  \A i \in DOMAIN sessions :
    /\ TargetOf(sessions[i], servers).id = sessions[i].serverId
    /\ sessions[i].id \in mounted

(***************************************************************************)
(* Properties of the resize and best-effort calls.                         *)
(***************************************************************************)
\* The step is the return of the connect call awaited by Terminal s, and the
\* line it writes tells a success from a failure.
ConnectReturned(s) == connectPending[s] /\ ~connectPending'[s]
ConnectSucceeded(s) == Written(s, <<"Connected">>) \in lastWrites'
ResizeCalls(calls) == {c \in calls : c.cmd = "pty_resize"}

\* C27 as claimed: after a connect call succeeds, a resize request with the
\* session's id and the surface's cols and rows is sent; after a connect
\* call fails, the connect path sends no resize request.
C27_ResizeAfterConnect ==
  [][\A s \in SessionIds :
       ConnectReturned(s)
       => IF ConnectSucceeded(s)
          THEN /\ lastFit'.surface = s
               /\ lastCalls' = {Resize(sessionId[s], lastFit'.size)}
               /\ lastFit'.size \in Sizes
          ELSE ResizeCalls(lastCalls') = {}
    ]_vars

\* C27 as amended: after a connect call succeeds the surface is fitted and,
\* unless fit() throws, a resize request with the session's id and the
\* fitted surface's cols and rows is sent; when fit() throws none is sent.
\* After a connect call fails, the connect path sends no resize request.
C27_ResizeAfterConnectUnlessFitThrows ==
  [][\A s \in SessionIds :
       ConnectReturned(s)
       => IF ConnectSucceeded(s)
          THEN /\ lastFit'.surface = s
               /\ IF lastFit'.size \in Sizes
                  THEN lastCalls' = {Resize(sessionId[s], lastFit'.size)}
                  ELSE lastCalls' = {}
          ELSE /\ ResizeCalls(lastCalls') = {}
               /\ lastFit' = NoFit
    ]_vars

C27_Witness ==
  /\ \E s \in SessionIds :
       /\ status[s] = "CONNECTED"
       /\ lastFit.surface = s
       /\ lastFit.size \in Sizes
       /\ lastWrites = {Written(s, <<"Connected">>)}
       /\ lastCalls = {Resize(sessionId[s], lastFit.size)}

\* C28: the rejection of a pty_write, pty_resize or pty_disconnect call
\* changes neither the status of a session, nor its transport session id,
\* nor the registry.
C28_RejectionChangesNothing ==
  [][lastRejected' # NoRejection
     => /\ lastRejected'.cmd \in BestEffortCmds
        /\ status' = status
        /\ statusRef' = statusRef
        /\ sessionId' = sessionId
        /\ sessionIdRef' = sessionIdRef
        /\ sessions' = sessions
        /\ activeSessionId' = activeSessionId
        /\ mounted' = mounted
    ]_vars

C28_Witness ==
  /\ lastRejected.cmd = "pty_write"
  /\ \E s \in SessionIds :
       /\ sessionId[s] = lastRejected.session_id
       /\ status[s] = "CONNECTED"
       /\ s \in mounted

(***************************************************************************)
(* Properties of the latch and of the registry, checked under Spec.        *)
(***************************************************************************)
ConnectCallsIn(calls, s) ==
  {c \in calls : c.cmd = "pty_connect" /\ c.session_id = NewSessionId(s)}

\* C31: the latch of a Terminal, once set, stays set while the Terminal is
\* mounted; once its connect attempt has failed or completed, no later run
\* of the connect effect issues a connect call, and the transport receives
\* at most one connect call of the Terminal over its whole life.
C31_LatchNeverCleared ==
  [][\A s \in SessionIds :
       /\ (isConnectingRef[s] /\ s \in mounted') => isConnectingRef'[s]
       /\ (isConnectingRef[s] /\ ~connectPending[s])
          => /\ connectCalls'[s] = connectCalls[s]
             /\ ConnectCallsIn(lastCalls', s) = {}
             /\ ~connectPending'[s]
       /\ connectCalls'[s] <= 1
    ]_vars

C31_Witness ==
  \E s \in mounted :
    /\ retriggered[s]
    /\ status[s] = "ERROR"
    /\ connectResult[s] = "error"
    /\ isConnectingRef[s]
    /\ connectCalls[s] = 1
    /\ lastCalls = {}

(***************************************************************************)
(* Properties of the AI panel, checked under SpecPanel.                    *)
(***************************************************************************)
\* The step is one of a gateway call dispatched from a panel.
PanelStep == aiTab # 0 \/ aiTab' # 0

\* C32: no step of a gateway call dispatched from a Terminal's panel, a
\* query or an auto-correct, in whatever status the session is, changes the
\* status of a session or issues a transport call; a suggested command is
\* written to the surface and not to the transport.
C32_AiDispatchLeavesSession ==
  [][(PanelStep /\ aiVars' # aiVars)
     => /\ status' = status
        /\ statusRef' = statusRef
        /\ sessionId' = sessionId
        /\ connectCalls' = connectCalls
        /\ lastCalls' = {}
    ]_vars

C32_Witness ==
  /\ aiTab = 0
  /\ lastCalls = {}
  /\ \E s \in SessionIds :
       /\ status[s] = "CONNECTED"
       /\ \E w \in lastWrites : w.surface = s /\ Head(w.lines) = "Suggested"

(***************************************************************************)
(* Properties of the tab list, checked under Spec.                         *)
(***************************************************************************)
Without(list, id) == SelectSeq(list, LAMBDA x : x.id # id)

Accepts(s) ==
  /\ lastEvent'.kind # "none"
  /\ \/ \E w \in lastWrites' : w.surface = s
     \/ status'[s] # status[s]

\* C35: a Terminal generates at most one transport session id, with its one
\* connect call, and the id is never replaced; the connect call, every
\* write, every resize and every event the Terminal accepts carry that id,
\* and no write or resize is issued while the Terminal has no id.
C35_OneTransportId ==
  [][\A s \in SessionIds :
       /\ connectCalls'[s] <= 1
       /\ sessionId[s] # 0 => sessionId'[s] = sessionId[s]
       /\ sessionIdRef'[s] \in {0, sessionId'[s]}
       /\ listening'[s] \in {0, sessionId'[s]}
       /\ connectCalls'[s] > connectCalls[s]
          => /\ sessionId'[s] # 0
             /\ lastCalls' = {Call("pty_connect", sessionId'[s])}
       /\ (lastInput'.session = s /\ lastCalls' # {})
          => /\ sessionId[s] # 0
             /\ lastCalls' = {Call("pty_write", sessionId[s])}
       /\ (lastFit'.surface = s /\ lastCalls' # {})
          => /\ sessionId[s] # 0
             /\ lastCalls' = {Resize(sessionId[s], lastFit'.size)}
       /\ Accepts(s)
          => /\ sessionId[s] # 0
             /\ lastEvent'.session_id = sessionId[s]
    ]_vars

C35_Witness ==
  \E s \in mounted :
    /\ connectCalls[s] = 1
    /\ lastInput = Input("onData", s)
    /\ sessionIdRef[s] = sessionId[s]
    /\ lastCalls = {Call("pty_write", sessionId[s])}

\* ---- C36 ----

\* The store has a master password and has not been unlocked.
StoreLocked == store.hasMasterPw /\ ~store.unlocked

\* C36: the credential gate is left only through a successful unlock. When
\* the startup check ends on a store that has a master password and is not
\* unlocked, the app is locked, and no session is open while the store is
\* in that condition or the app is locked; an unlock call that fails leaves
\* the app locked and an error shown; handleUnlock with an empty password
\* makes no unlock call; and the locked state is cleared only in a step in
\* which an unlock call returned ok.
C36_GateLeftOnlyByUnlock ==
  [][/\ (isCheckingDb /\ ~isCheckingDb' /\ StoreLocked) => isDbLocked'
     /\ (StoreLocked' \/ isDbLocked') => sessions' = <<>>
     /\ \A i \in DOMAIN unlockPending, err \in UnlockErrors :
          (isDbLocked /\ UnlockReturn(i, UnlockRejected(err)))
          => isDbLocked' /\ error' # NoError
     /\ (handleUnlock /\ password = <<>>)
        => unlockPending' = unlockPending /\ error' # NoError /\ isDbLocked'
     /\ (isDbLocked /\ ~isDbLocked')
        => \E i \in DOMAIN unlockPending : UnlockReturn(i, UnlockOk)
    ]_vars

====
